---- MODULE Spec2Model ----
(***************************************************************************)
(* Weekly territory transfer engine of imperial_map.                       *)
(*                                                                         *)
(*   backend/lib/game_engine.py   process_game_result                      *)
(*   backend/apply_transfers.py   build_team_reverse_index,                *)
(*                                apply_transfers_for_week, main           *)
(*   backend/ingest_games.py      _normalize_game, group_games_by_week     *)
(*                                                                         *)
(* A Python value that may be None is a sequence: <<>> is None and <<v>>   *)
(* is the value v.  A dict key that is absent reads as None, as with       *)
(* dict.get.                                                               *)
(***************************************************************************)
EXTENDS Integers, Sequences, FiniteSets, TLC

\* ------------------------------------------------------------------ bounds

\* Week entries in the season timeline (games/<season>/index.json).
MaxWeeks == 2

\* Games in the weekly game files of the season, all weeks together.
MaxGames == 2

\* ------------------------------------------------------------- input sets

Teams == {"A", "B", "C"}

Regions == {"c1", "c2", "c3"}

TeamNo == [t \in Teams |-> CASE t = "A" -> 1 [] t = "B" -> 2 [] OTHER -> 3]

None == <<>>

Some(v) == <<v>>

\* ------------------------------------------------------- python semantics

\* Truth value of an optional string / number / bool (None, '', 0 and False
\* are falsy).
TruthyStr(x) == x # None /\ x[1] # ""

TruthyNum(x) == x # None /\ x[1] # 0

TruthyBool(x) == x # None /\ x[1]

\* a or b
OrStr(a, b) == IF TruthyStr(a) THEN a ELSE b

OrNum(a, b) == IF TruthyNum(a) THEN a ELSE b

\* str.lower() on the status strings of the model
Lower(s) ==
    CASE s = "Final" -> "final"
      [] s = "FINAL" -> "final"
      [] s = "Completed" -> "completed"
      [] OTHER -> s

\* ------------------------------------------------------------------ games

\* A game dict with every key the engine and the ingestion read absent.
BlankGame ==
    [ id |-> None, status |-> None, completed |-> None,
      winner_id |-> None, winnerId |-> None, winner |-> None,
      loser_id |-> None, loserId |-> None, loser |-> None,
      home_score |-> None, homeScore |-> None,
      away_score |-> None, awayScore |-> None,
      home_team_id |-> None, homeTeamId |-> None,
      away_team_id |-> None, awayTeamId |-> None,
      week |-> None, startDate |-> None, sortKey |-> None ]

\* The dict _normalize_game returns for a completed game between two resolved
\* teams with different scores (the keys the engine reads).
NormalizedGame(id, home_id, away_id, home_points, away_points) ==
    LET home_wins == home_points > away_points
    IN  [ BlankGame EXCEPT
            !.id = Some(id),
            !.completed = Some(TRUE),
            !.homeTeamId = Some(home_id),
            !.awayTeamId = Some(away_id),
            !.homeScore = Some(home_points),
            !.awayScore = Some(away_points),
            !.winnerId = Some(IF home_wins THEN home_id ELSE away_id),
            !.loserId = Some(IF home_wins THEN away_id ELSE home_id) ]

\* Games of a weekly file written by ingest_games: one per ordered pair of
\* different teams, the home team winning 2-1.
IngestGames ==
    { NormalizedGame(10 * TeamNo[p[1]] + TeamNo[p[2]], p[1], p[2], 2, 1) :
        p \in { q \in Teams \X Teams : q[1] # q[2] } }

\* ---------------------------------------------------- process_game_result

\* team_counties argument when no reverse index is passed
NoIndex == None

\* game_engine.py lines 69-74, with team.get(winner) in place of
\* team.get(loser)
LoserCountiesOfWinner(winner, loser, current_ownership, team_counties) ==
    IF team_counties # NoIndex
    THEN team_counties[1][winner]
    ELSE { fips \in DOMAIN current_ownership : current_ownership[fips] = winner }

\* game_engine.py lines 69-74, taking every region the winner does not own
LoserCountiesAllOthers(winner, loser, current_ownership, team_counties) ==
    { fips \in DOMAIN current_ownership : current_ownership[fips] # winner }

\* game_engine.py lines 69-74, taking one region of the loser only
LoserCountiesOneOnly(winner, loser, current_ownership, team_counties) ==
    LET all == { fips \in DOMAIN current_ownership : current_ownership[fips] = loser }
    IN  IF all = {} THEN {} ELSE { CHOOSE fips \in all : TRUE }

\* The loser's regions: from the reverse index when one is passed, otherwise
\* by scanning the ownership map.
LoserCounties(winner, loser, current_ownership, team_counties) ==
    IF team_counties # NoIndex
    THEN team_counties[1][loser]
    ELSE { fips \in DOMAIN current_ownership : current_ownership[fips] = loser }

\* game_engine.py lines 51-57 without the equal-scores test
CannotDeriveIgnoringTie(home_score, away_score, home_team, away_team) ==
    \/ home_score = None
    \/ away_score = None
    \/ home_team = None
    \/ away_team = None

\* Whether winner and loser cannot be derived from the scores.
CannotDerive(home_score, away_score, home_team, away_team) ==
    \/ home_score = None
    \/ away_score = None
    \/ home_team = None
    \/ away_team = None
    \/ home_score = away_score

\* Winner and loser of a game, or None when they cannot be derived from the
\* scores.
WinnerLoser(game) ==
    LET winner == OrStr(OrStr(game.winner_id, game.winnerId), game.winner)
        loser  == OrStr(OrStr(game.loser_id, game.loserId), game.loser)
    IN  IF ~TruthyStr(winner) \/ ~TruthyStr(loser)
        THEN LET home_score == OrNum(game.home_score, game.homeScore)
                 away_score == OrNum(game.away_score, game.awayScore)
                 home_team  == OrStr(game.home_team_id, game.homeTeamId)
                 away_team  == OrStr(game.away_team_id, game.awayTeamId)
             IN  IF CannotDerive(home_score, away_score, home_team, away_team)
                 THEN None
                 ELSE LET home_wins == home_score[1] > away_score[1]
                      IN  Some([ winner |-> IF home_wins THEN home_team[1] ELSE away_team[1],
                                 loser  |-> IF home_wins THEN away_team[1] ELSE home_team[1] ])
        ELSE Some([ winner |-> winner[1], loser |-> loser[1] ])

\* Whether the status / completed check lets the game through.
PassesStatusCheck(game) ==
    LET status    == Lower(OrStr(game.status, Some(""))[1])
        completed == TruthyBool(game.completed)
    IN  ~(status # "" /\ status \notin {"final", "completed"} /\ ~completed)

\* process_game_result(game, current_ownership, team_counties): None, or
\* Some of the result dict.  transfers is the set of regions of the transfer
\* entries (one entry per region, each from loser to winner).
process_game_result(game, current_ownership, team_counties) ==
    IF ~PassesStatusCheck(game)
    THEN None
    ELSE LET wl == WinnerLoser(game)
         IN  IF wl = None
             THEN None
             ELSE IF wl[1].winner = wl[1].loser
             THEN None
             ELSE LET loser_counties ==
                          LoserCounties(wl[1].winner, wl[1].loser,
                                        current_ownership, team_counties)
                  IN  Some([ winner |-> wl[1].winner,
                             loser |-> wl[1].loser,
                             transfer_count |-> Cardinality(loser_counties),
                             transfers |-> loser_counties ])

\* ------------------------------------------------------------------ state

VARIABLES
    ownership,          \* dict region -> team (main's ownership)
    team_to_fips,       \* reverse index team -> set of regions
    dry_run,            \* --dry-run
    timeline,           \* number of week entries of the season timeline
    week,               \* week entries of the timeline consumed so far
    pc,                 \* position of the run
    raw_games,          \* games fetched by ingest_games, not yet ingested
    week_files,         \* games/<season>/week-NN.json as far as known: the
                        \* game list of each week, None for a week without one
    games,              \* the game list loaded for the current week
    gi,                 \* games of the list the for-loop has taken
    result,             \* result of process_game_result for games[gi]
    called_with,        \* history: the ownership map as it was when
                        \* process_game_result was called for games[gi]
    pending,            \* transfers of result the inner loop has not visited yet
    processed_games,    \* apply_transfers_for_week's counters
    county_transfers,
    transfer_records,   \* records of the current week
    summary,            \* value returned by apply_transfers_for_week
    weekly_summaries,   \* main's list of summaries
    season_weeks,       \* main's list of week entries (their weekIndex)
    new_transfers,      \* main's list of records of the run
    snapshots,          \* ownership/<season>/week-NN.json: weekIndex -> dict
    index_file,         \* ownership/index.json: the season's weeks, or None
    transfers_file,     \* transfers.json: the persisted ledger
    existing_transfers, \* main's existing_transfers, read from transfers.json
    ownership_file,     \* ownership.json: the baseline, only ever read
    key_order,          \* the keys of the ownership dict in dict order
    snapshot_keys,      \* the keys of each snapshot file in file order
    week_paths,         \* for each week entry read so far, whether it has a path
    county_stats,       \* county-stats.json as compute_leaderboards read it
    payload,            \* the payload compute_leaderboards computed, or None
    lb_files,           \* leaderboards/<season>/week-NN.json:
                        \* (season, weekIndex) -> payload
    lb_index,           \* leaderboards/index.json, or None
    lb_latest,          \* leaderboards/latest.json, or None
    features,           \* the county features setup read from the GeoJSON
    setup_ownership,    \* the ownership.json setup wrote, or None
    baseline_centroids, \* territory-centroids.json of the baseline, or None
    current_ownership,  \* the snapshot calculate_territory_logos was given
    logos               \* the markers calculate_territory_logos returned

vars == << ownership, team_to_fips, dry_run, timeline, week, pc, raw_games,
           week_files, games, gi, result, called_with, pending,
           processed_games, county_transfers, transfer_records, summary,
           weekly_summaries, season_weeks, new_transfers, snapshots,
           index_file, transfers_file, existing_transfers, ownership_file,
           key_order, snapshot_keys, week_paths, county_stats, payload,
           lb_files, lb_index, lb_latest, features, setup_ownership,
           baseline_centroids, current_ownership, logos >>

\* what apply_transfers_for_week works on
weekVars == << games, gi, result, called_with, pending, processed_games,
               county_transfers, transfer_records, summary >>

\* what apply_transfers_for_week leaves alone
mainVars == << dry_run, timeline, week, raw_games, week_files,
               weekly_summaries, season_weeks, new_transfers, snapshots,
               index_file, transfers_file, existing_transfers,
               ownership_file, snapshot_keys, week_paths, county_stats,
               payload, lb_files, lb_index, lb_latest, features,
               setup_ownership, baseline_centroids, current_ownership, logos >>

\* what only compute_leaderboards touches
boardVars == << county_stats, payload, lb_files, lb_index, lb_latest >>

\* what only setup and the marker calculation touch
mapVars == << features, setup_ownership, baseline_centroids, current_ownership,
              logos >>

\* ------------------------------------------------------- apply_transfers

\* build_team_reverse_index: team -> set of regions it owns (a defaultdict:
\* a team without regions reads as the empty set).
build_team_reverse_index(own) ==
    [ t \in Teams |-> { fips \in DOMAIN own : own[fips] = t } ]

\* Every baseline ownership.json: each region owned by one team.
Baselines == [Regions -> Teams]

\* One baseline for each way of splitting the regions among teams (the teams
\* are interchangeable: c1 is A's, the next region with another owner is B's).
CanonicalBaselines ==
    { baseline \in Baselines :
        /\ baseline["c1"] = "A"
        /\ baseline["c2"] \in {"A", "B"}
        /\ baseline["c3"] = "C" => baseline["c2"] = "B" }

\* Game lists of at most n games over the set S.
Feeds(S, n) == UNION { [1..k -> S] : k \in 0..n }

\* The keys of ownership.json in file order, which json.load keeps.
BaselineKeys == << "c1", "c2", "c3" >>

\* lines 199, 227 and 237 writing under --dry-run as well
WritesFilesAlways(dry) == TRUE

\* lines 199, 227 and 237: 'if not args.dry_run' around every write of main.
WritesFiles(dry) == ~dry

\* main, lines 176-205: load the baseline, build the reverse index, write the
\* week-0 snapshot, read the existing ledger.
InitRun(baseline, dry, nweeks, existing) ==
    /\ ownership_file = baseline
    /\ ownership = baseline
    /\ key_order = BaselineKeys
    /\ existing_transfers = existing
    /\ transfers_file = existing
    /\ snapshot_keys = IF WritesFiles(dry) THEN (0 :> BaselineKeys) ELSE <<>>
    /\ week_paths = <<>>
    /\ team_to_fips = build_team_reverse_index(baseline)
    /\ dry_run = dry
    /\ timeline = nweeks
    /\ week = 0
    /\ pc = "main"
    /\ raw_games = <<>>
    /\ week_files = <<>>
    /\ games = <<>>
    /\ gi = 0
    /\ result = None
    /\ called_with = baseline
    /\ pending = {}
    /\ processed_games = 0
    /\ county_transfers = 0
    /\ transfer_records = <<>>
    /\ summary = None
    /\ weekly_summaries = <<>>
    /\ season_weeks = <<0>>
    /\ new_transfers = <<>>
    /\ snapshots = IF WritesFiles(dry) THEN (0 :> baseline) ELSE <<>>
    /\ index_file = None
    /\ county_stats = None
    /\ payload = None
    /\ lb_files = <<>>
    /\ lb_index = None
    /\ lb_latest = None
    /\ features = <<>>
    /\ setup_ownership = None
    /\ baseline_centroids = None
    /\ current_ownership = None
    /\ logos = None

\* A first run: transfers.json does not exist yet.
InitMain(baseline, dry, nweeks) == InitRun(baseline, dry, nweeks, <<>>)

Init ==
    \E baseline \in Baselines, nweeks \in 0..MaxWeeks :
        InitMain(baseline, FALSE, nweeks)

\* Number of games in the weekly files read so far.
RECURSIVE GamesIn(_)
GamesIn(files) ==
    IF files = <<>> THEN 0
    ELSE (IF Head(files) = None THEN 0 ELSE Len(Head(files)[1])) + GamesIn(Tail(files))

\* line 72: the summary for a week entry without a path (no 'missing' and
\* no 'transfers' key).
NoPathSummary(week_index) ==
    [ weekIndex |-> week_index, gamesProcessed |-> 0,
      countiesTransferred |-> 0, missing |-> FALSE, transfers |-> None ]

\* lines 81-86 without the 'missing' key
MissingSummaryUnflagged(week_index) ==
    [ weekIndex |-> week_index, gamesProcessed |-> 0,
      countiesTransferred |-> 0, missing |-> FALSE, transfers |-> Some(<<>>) ]

\* lines 81-86: the summary for a week whose file is not found.
MissingSummary(week_index) ==
    [ weekIndex |-> week_index, gamesProcessed |-> 0,
      countiesTransferred |-> 0, missing |-> TRUE, transfers |-> None ]

\* apply_transfers_for_week, lines 70-90: the week entry has no path, or its
\* file is missing, or the file's game list is loaded.
LoadWeekFrom(feeds) ==
    /\ pc = "main"
    /\ week < timeline
    /\ \/ /\ summary' = Some(NoPathSummary(week + 1))
          /\ week_files' = Append(week_files, None)
          /\ week_paths' = Append(week_paths, FALSE)
          /\ pc' = "returned"
          /\ UNCHANGED << games, gi, result, called_with, pending,
                          processed_games, county_transfers, transfer_records >>
       \/ /\ summary' = Some(MissingSummary(week + 1))
          /\ week_files' = Append(week_files, None)
          /\ week_paths' = Append(week_paths, TRUE)
          /\ pc' = "returned"
          /\ UNCHANGED << games, gi, result, called_with, pending,
                          processed_games, county_transfers, transfer_records >>
       \/ /\ \E feed \in feeds :
               /\ games' = feed
               /\ week_files' = Append(week_files, Some(feed))
          /\ week_paths' = Append(week_paths, TRUE)
          /\ gi' = 0
          /\ result' = None
          /\ pending' = {}
          /\ processed_games' = 0
          /\ county_transfers' = 0
          /\ transfer_records' = <<>>
          /\ pc' = "games"
          /\ UNCHANGED << summary, called_with >>
    /\ UNCHANGED << ownership, key_order, team_to_fips, dry_run, timeline, week,
                    raw_games, weekly_summaries, season_weeks, new_transfers,
                    snapshots, index_file, transfers_file, existing_transfers,
                    ownership_file, snapshot_keys >>
    /\ UNCHANGED << boardVars, mapVars >>

\* A weekly file as ingest_games writes it.
LoadWeek == LoadWeekFrom(Feeds(IngestGames, MaxGames - GamesIn(week_files)))

\* apply_transfers_for_week, lines 92-102: the for-loop takes the next game.
NextGame ==
    /\ pc = "games"
    /\ gi < Len(games)
    /\ gi' = gi + 1
    /\ called_with' = ownership
    /\ LET game == games[gi + 1]
           res  == process_game_result(game, ownership, Some(team_to_fips))
       IN  /\ result' = res
           /\ IF res = None
              THEN /\ pc' = "games"
                   /\ UNCHANGED << pending, processed_games, county_transfers >>
              ELSE /\ processed_games' = processed_games + 1
                   /\ IF res[1].transfer_count = 0
                      THEN /\ pc' = "games"
                           /\ UNCHANGED << pending, county_transfers >>
                      ELSE /\ county_transfers' = county_transfers + res[1].transfer_count
                           /\ pending' = res[1].transfers
                           /\ pc' = "transfers"
    /\ UNCHANGED << ownership, key_order, team_to_fips, games, transfer_records, summary >>
    /\ UNCHANGED mainVars

\* dict.get(fips)
OwnerOf(own, fips) == IF fips \in DOMAIN own THEN Some(own[fips]) ELSE None

\* line 121 with key and value exchanged
TransferredOwnershipSwapped(own, fips, winner) == (winner :> fips) @@ own

\* line 121: ownership[fips] = winner
TransferredOwnership(own, fips, winner) == (fips :> winner) @@ own

\* line 121 as delete and insert: the key moves to the end of the dict
KeysAfterAssignMovedLast(keys, fips) ==
    SelectSeq(keys, LAMBDA k : k # fips) \o << fips >>

\* line 121: assigning to a key a dict holds leaves the key where it is; a
\* new key goes to the end.
KeysAfterAssign(keys, fips) ==
    IF \E i \in 1..Len(keys) : keys[i] = fips THEN keys ELSE Append(keys, fips)

\* lines 117-122 without the discard from the previous owner's set
TransferredIndexNoDiscard(index, previous_owner, fips, winner) ==
    [ t \in Teams |-> IF t = winner THEN index[t] \cup {fips} ELSE index[t] ]

\* lines 117-122 without the add to the winner's set
TransferredIndexNoAdd(index, previous_owner, fips, winner) ==
    [ t \in Teams |->
        IF TruthyStr(previous_owner) /\ t = previous_owner[1]
        THEN index[t] \ {fips}
        ELSE index[t] ]

\* lines 117-122: the region leaves the previous owner's set, if it has one,
\* and joins the winner's.
TransferredIndex(index, previous_owner, fips, winner) ==
    [ t \in Teams |->
        IF t = winner
        THEN index[t] \cup {fips}
        ELSE IF TruthyStr(previous_owner) /\ t = previous_owner[1]
        THEN index[t] \ {fips}
        ELSE index[t] ]

\* apply_transfers_for_week, lines 110-122: one pass of the inner loop, for a
\* transfer entry the loop has not visited (the entries come from a set, in
\* any order).
TransferStep ==
    /\ pc = "transfers"
    /\ pending # {}
    /\ \E fips \in pending :
         LET winner == result[1].winner
             previous_owner == OwnerOf(ownership, fips)
         IN  /\ pending' = pending \ {fips}
             /\ IF previous_owner = Some(winner)
                THEN UNCHANGED << ownership, key_order, team_to_fips >>
                ELSE /\ ownership' = TransferredOwnership(ownership, fips, winner)
                     /\ key_order' = KeysAfterAssign(key_order, fips)
                     /\ team_to_fips' =
                          TransferredIndex(team_to_fips, previous_owner, fips, winner)
    /\ pc' = "transfers"
    /\ UNCHANGED << games, gi, result, called_with, processed_games,
                    county_transfers, transfer_records, summary >>
    /\ UNCHANGED mainVars

\* lines 125-136 with the list of regions left empty
TransferRecordWithoutFips(week_index, game, res, at) ==
    [ weekIndex |-> week_index,
      gameId |-> game.id,
      winnerId |-> res.winner,
      loserId |-> res.loser,
      transferCount |-> res.transfer_count,
      fips |-> {},
      completedAt |-> at ]

\* lines 125-136: the record of a game (fips is the set of regions of the
\* result's transfer entries, at the time stamped on them).
TransferRecord(week_index, game, res, at) ==
    [ weekIndex |-> week_index,
      gameId |-> game.id,
      winnerId |-> res.winner,
      loserId |-> res.loser,
      transferCount |-> res.transfer_count,
      fips |-> res.transfers,
      completedAt |-> at ]

\* Values datetime.utcnow() can show during a run.
Clock == {1, 2}

\* apply_transfers_for_week, lines 124-137: the inner loop is over, the game's
\* record is appended, stamped with a time the clock showed when
\* process_game_result read it (one of clock).
AppendRecordAt(clock) ==
    /\ pc = "transfers"
    /\ pending = {}
    /\ \E at \in clock :
         transfer_records' =
             Append(transfer_records,
                    TransferRecord(week + 1, games[gi], result[1], at))
    /\ pc' = "games"
    /\ UNCHANGED << ownership, key_order, team_to_fips, games, gi, result, called_with,
                    pending, processed_games, county_transfers, summary >>
    /\ UNCHANGED mainVars

\* A run during which the clock shows one value.
AppendRecord == AppendRecordAt({1})

\* apply_transfers_for_week, lines 139-144: the list is exhausted.
ReturnWeek ==
    /\ pc = "games"
    /\ gi = Len(games)
    /\ summary' = Some([ weekIndex |-> week + 1,
                         gamesProcessed |-> processed_games,
                         countiesTransferred |-> county_transfers,
                         missing |-> FALSE,
                         transfers |-> Some(transfer_records) ])
    /\ pc' = "returned"
    /\ UNCHANGED << ownership, key_order, team_to_fips, games, gi, result, called_with,
                    pending, processed_games, county_transfers,
                    transfer_records >>
    /\ UNCHANGED mainVars

\* save_weekly_ownership with every snapshot file showing the one dict
SavedSnapshotsAliased(snaps, week_index, own) ==
    [ w \in DOMAIN snaps \cup {week_index} |-> own ]

\* save_weekly_ownership: json.dump writes the dict's content as it is now to
\* the week's file; the other files stay as they are.
SavedSnapshots(snaps, week_index, own) == (week_index :> own) @@ snaps

\* main, lines 216-235: the week's summary, week entry, snapshot and records.
SaveWeek ==
    /\ pc = "returned"
    /\ weekly_summaries' = Append(weekly_summaries, summary[1])
    /\ season_weeks' = Append(season_weeks, week + 1)
    /\ snapshots' = IF WritesFiles(dry_run)
                    THEN SavedSnapshots(snapshots, week + 1, ownership)
                    ELSE snapshots
    /\ snapshot_keys' = IF WritesFiles(dry_run)
                        THEN SavedSnapshots(snapshot_keys, week + 1, key_order)
                        ELSE snapshot_keys
    /\ new_transfers' = new_transfers \o
                          (IF summary[1].transfers = None THEN <<>>
                           ELSE summary[1].transfers[1])
    /\ week' = week + 1
    /\ pc' = "main"
    /\ UNCHANGED << ownership, key_order, team_to_fips, dry_run, timeline, raw_games,
                    week_files, index_file, transfers_file, existing_transfers,
                    ownership_file, week_paths >>
    /\ UNCHANGED << boardVars, mapVars >>
    /\ UNCHANGED weekVars

\* line 240 saving the records of this run only
SavedTransfersNewOnly(existing, new) == new

\* line 240: save_transfers(existing_transfers + new_transfers)
SavedTransfers(existing, new) == existing \o new

\* main, lines 237-256: the timeline is exhausted; the index and the ledger
\* are written.
Finish ==
    /\ pc = "main"
    /\ week = timeline
    /\ index_file' = IF WritesFiles(dry_run) THEN Some(season_weeks) ELSE index_file
    /\ transfers_file' = IF WritesFiles(dry_run) /\ new_transfers # <<>>
                         THEN SavedTransfers(existing_transfers, new_transfers)
                         ELSE transfers_file
    /\ pc' = "done"
    /\ UNCHANGED << ownership, key_order, team_to_fips, dry_run, timeline, week,
                    raw_games, week_files, weekly_summaries, season_weeks,
                    new_transfers, snapshots, existing_transfers,
                    ownership_file, snapshot_keys, week_paths >>
    /\ UNCHANGED << boardVars, mapVars >>
    /\ UNCHANGED weekVars

Next ==
    \/ LoadWeek
    \/ NextGame
    \/ TransferStep
    \/ AppendRecord
    \/ ReturnWeek
    \/ SaveWeek
    \/ Finish

\* A run of apply_transfers over a season of at most MaxWeeks weekly files
\* written by ingest_games, holding at most MaxGames games.
Spec == Init /\ [][Next]_vars

\* ------------------------------------------ games of any shape, one call

Scores == {0, 1, 2}

StatusValues ==
    { None, Some(""), Some("final"), Some("Final"), Some("completed"),
      Some("scheduled") }

CompletedValues == { None, Some(TRUE), Some(FALSE) }

\* Games that name winner and loser, under each of the three key styles
\* process_game_result reads, with every status and completed flag.
ExplicitGames ==
    { [ BlankGame EXCEPT !.id = Some(1), !.status = x[1], !.completed = x[2],
                         ![x[3][1]] = Some(x[4]), ![x[3][2]] = Some(x[5]) ] :
        x \in StatusValues \X CompletedValues
              \X { <<"winner_id", "loser_id">>, <<"winnerId", "loserId">>,
                   <<"winner", "loser">> }
              \X Teams \X Teams }

\* Final games without winner and loser ids: team ids and scores under either
\* key style, each possibly missing.
ScoreGames ==
    { [ BlankGame EXCEPT !.id = Some(2), !.status = Some("final"),
                         ![x[1][1]] = x[2], ![x[1][2]] = x[3],
                         ![x[1][3]] = x[4], ![x[1][4]] = x[5] ] :
        x \in { <<"home_team_id", "away_team_id", "home_score", "away_score">>,
                <<"homeTeamId", "awayTeamId", "homeScore", "awayScore">> }
              \X { None, Some("A") } \X { None, Some("A"), Some("B") }
              \X ({None} \cup { Some(n) : n \in Scores })
              \X ({None} \cup { Some(n) : n \in Scores }) }

\* Final games that name only the winner, the loser left to the scores.
HalfNamedGames ==
    { [ g EXCEPT !.winnerId = Some("C") ] : g \in ScoreGames }

AnyGames == ExplicitGames \cup ScoreGames \cup HalfNamedGames

\* A weekly file holding one game of any shape.
LoadAnyWeek == LoadWeekFrom({ << g >> : g \in AnyGames })

\* tests/test_game_engine.py: process_game_result called on the next game
\* without a reverse index; nothing is applied.
TestCall ==
    /\ pc = "games"
    /\ gi < Len(games)
    /\ gi' = gi + 1
    /\ called_with' = ownership
    /\ result' = process_game_result(games[gi + 1], ownership, NoIndex)
    /\ pc' = "tested"
    /\ UNCHANGED << ownership, key_order, team_to_fips, games, pending, processed_games,
                    county_transfers, transfer_records, summary >>
    /\ UNCHANGED mainVars

InitGame == \E baseline \in Baselines : InitMain(baseline, FALSE, 1)

NextAnyGame ==
    \/ LoadAnyWeek
    \/ TestCall
    \/ NextGame
    \/ TransferStep
    \/ AppendRecord
    \/ ReturnWeek
    \/ SaveWeek
    \/ Finish

\* A run of apply_transfers over one weekly file that holds one game of any
\* shape, or a direct call of process_game_result on that game.
SpecGame == InitGame /\ [][NextAnyGame]_vars

\* ------------------------------------------------------- replay of a week

\* The first week's file is any file of ingest_games; every later week's file
\* has the same content as the week before it.
LoadOrReplayWeek ==
    LoadWeekFrom(IF week = 0 THEN Feeds(IngestGames, MaxGames)
                 ELSE IF week_files[week] = None THEN {}
                 ELSE { week_files[week][1] })

InitReplay == \E baseline \in Baselines : InitMain(baseline, FALSE, 2)

NextReplay ==
    \/ LoadOrReplayWeek
    \/ NextGame
    \/ TransferStep
    \/ AppendRecord
    \/ ReturnWeek
    \/ SaveWeek
    \/ Finish

\* A run over two weeks, the second week's feed a replay of the first's.
SpecReplay == InitReplay /\ [][NextReplay]_vars

\* ------------------------------------------------- a run after other runs

\* A record an earlier run left in transfers.json.
OldRecord ==
    TransferRecord(1, NormalizedGame(21, "B", "A", 2, 1),
                   [ winner |-> "B", loser |-> "A", transfer_count |-> 1,
                     transfers |-> {"c1"} ], 0)

\* What load_existing_transfers can find: no file, or a ledger.
ExistingLedgers == { <<>>, << OldRecord >> }

\* The record is stamped with whatever the clock shows.
AppendRecordAnyTime == AppendRecordAt(Clock)

InitRerun ==
    \E baseline \in CanonicalBaselines, nweeks \in 0..MaxWeeks, dry \in BOOLEAN,
       existing \in ExistingLedgers :
        InitRun(baseline, dry, nweeks, existing)

NextRerun ==
    \/ LoadWeek
    \/ NextGame
    \/ TransferStep
    \/ AppendRecordAnyTime
    \/ ReturnWeek
    \/ SaveWeek
    \/ Finish

\* A run of apply_transfers, dry or not, that may find a ledger of earlier
\* runs, under a running clock.
SpecRerun == InitRerun /\ [][NextRerun]_vars

\* ------------------------------------------------------ a run that fails

\* apply_transfers_for_week, lines 78-80: the week's file is there but is not
\* JSON; json.load raises a JSONDecodeError, which is not a FileNotFoundError
\* and which nothing up to line 260 catches: the run ends.
LoadCorruptWeek ==
    /\ pc = "main"
    /\ week < timeline
    /\ week_files' = Append(week_files, None)
    /\ week_paths' = Append(week_paths, TRUE)
    /\ pc' = "aborted"
    /\ UNCHANGED << ownership, key_order, team_to_fips, dry_run, timeline, week,
                    raw_games, weekly_summaries, season_weeks, new_transfers,
                    snapshots, index_file, transfers_file, existing_transfers,
                    ownership_file, snapshot_keys >>
    /\ UNCHANGED << boardVars, mapVars >>
    /\ UNCHANGED weekVars

NextAbort ==
    \/ LoadWeek
    \/ LoadCorruptWeek
    \/ NextGame
    \/ TransferStep
    \/ AppendRecord
    \/ ReturnWeek
    \/ SaveWeek
    \/ Finish

\* A run of apply_transfers in which a weekly file may be corrupt.
SpecAbort == Init /\ [][NextAbort]_vars

\* ------------------------------------------------------------- ingestion

\* A start_date of the feed: ISO-8601 text giving a local time and a UTC
\* offset in hours (a trailing Z is offset 0), or text that does not parse.
IsoText(local, offset) == [ valid |-> TRUE, local |-> local, offset |-> offset ]

BadText == [ valid |-> FALSE, local |-> 0, offset |-> 0 ]

\* datetime.fromisoformat(start_date.replace('Z', '+00:00')): the aware
\* datetime, or None on ValueError.
fromisoformat(text) ==
    IF text.valid THEN Some([ local |-> text.local, offset |-> text.offset ])
    ELSE None

\* datetime.isoformat(): the text 'local time, sign, offset', as the sequence
\* of its parts in the order string comparison reads them ('+' sorts before
\* '-'; the parts have fixed width, so each compares as its number).
isoformat(dt) ==
    << dt.local,
       IF dt.offset >= 0 THEN 0 ELSE 1,
       IF dt.offset >= 0 THEN dt.offset ELSE 0 - dt.offset >>

\* The instant a datetime denotes, in hours UTC.
Instant(dt) == dt.local - dt.offset

\* a < b for two strings given as sequences of parts (the empty string is
\* below every other).
RECURSIVE StrLess(_, _)
StrLess(a, b) ==
    IF b = <<>> THEN FALSE
    ELSE IF a = <<>> THEN TRUE
    ELSE IF Head(a) # Head(b) THEN Head(a) < Head(b)
    ELSE StrLess(Tail(a), Tail(b))

\* A raw game of the feed with every key absent.
BlankRaw ==
    [ id |-> None, completed |-> None, week |-> None,
      home_team |-> None, homeTeam |-> None,
      away_team |-> None, awayTeam |-> None,
      home_points |-> None, homePoints |-> None,
      away_points |-> None, awayPoints |-> None,
      start_date |-> None, startDate |-> None ]

\* _normalize_team_key on the names of the model, and the lookup table of
\* build_team_name_lookup.
resolve_team_id(name) ==
    IF name = None THEN None
    ELSE CASE name[1] = "Alpha" -> Some("A")
           [] name[1] = "Beta" -> Some("B")
           [] name[1] = "Gamma" -> Some("C")
           [] OTHER -> None

\* _first_present(a, b)
first_present(a, b) == IF a # None THEN a ELSE b

\* _normalize_game(raw): None, or Some of the normalized game.
normalize_game(raw) ==
    IF ~TruthyBool(raw.completed)
    THEN None
    ELSE LET home_id == resolve_team_id(first_present(raw.home_team, raw.homeTeam))
             away_id == resolve_team_id(first_present(raw.away_team, raw.awayTeam))
             home_points == first_present(raw.home_points, raw.homePoints)
             away_points == first_present(raw.away_points, raw.awayPoints)
             start_date == first_present(raw.start_date, raw.startDate)
             sort_key == IF start_date # None THEN fromisoformat(start_date[1])
                         ELSE None
         IN  IF home_id = None \/ away_id = None
             THEN None
             ELSE IF home_points = None \/ away_points = None
                     \/ home_points = away_points
             THEN None
             ELSE Some([ NormalizedGame(raw.id[1], home_id[1], away_id[1],
                                        home_points[1], away_points[1])
                         EXCEPT !.week = raw.week,
                                !.startDate = start_date,
                                !.sortKey = IF sort_key # None
                                            THEN Some(isoformat(sort_key[1]))
                                            ELSE None ])

\* normalize_games: the normalized games, in feed order.
RECURSIVE normalize_games(_)
normalize_games(raws) ==
    IF raws = <<>> THEN <<>>
    ELSE LET game == normalize_game(Head(raws))
         IN  (IF game = None THEN <<>> ELSE << game[1] >>)
               \o normalize_games(Tail(raws))

\* The sort key of group_games_by_week, compared as Python compares tuples:
\* (sortKey or '', id or '').
SortKeyLess(g1, g2) ==
    LET k1 == IF g1.sortKey = None THEN <<>> ELSE g1.sortKey[1]
        k2 == IF g2.sortKey = None THEN <<>> ELSE g2.sortKey[1]
    IN  \/ StrLess(k1, k2)
        \/ k1 = k2 /\ g1.id[1] < g2.id[1]

\* list.sort(key=...): a stable sort.  Insert puts g behind every game that
\* is not above it.
RECURSIVE Insert(_, _)
Insert(g, sorted) ==
    IF sorted = <<>> THEN << g >>
    ELSE IF SortKeyLess(g, Head(sorted)) THEN << g >> \o sorted
    ELSE << Head(sorted) >> \o Insert(g, Tail(sorted))

RECURSIVE SortGames(_)
SortGames(entries) ==
    IF entries = <<>> THEN <<>>
    ELSE Insert(entries[Len(entries)], SortGames(SubSeq(entries, 1, Len(entries) - 1)))

\* int(game.get('week') or 0)
WeekOf(game) == IF TruthyNum(game.week) THEN game.week[1] ELSE 0

\* group_games_by_week: the games of week w, sorted.
RECURSIVE Bucket(_, _)
Bucket(gs, w) ==
    IF gs = <<>> THEN <<>>
    ELSE (IF WeekOf(Head(gs)) = w THEN << Head(gs) >> ELSE <<>>) \o Bucket(Tail(gs), w)

group_games_by_week(gs, w) == SortGames(Bucket(gs, w))

\* save_weekly_games: the sortKey is popped from every game.
RECURSIVE save_weekly_games(_)
save_weekly_games(gs) ==
    IF gs = <<>> THEN <<>>
    ELSE << [ Head(gs) EXCEPT !.sortKey = None ] >> \o save_weekly_games(Tail(gs))

\* build_timeline: the week numbers in ascending order.
RECURSIVE SortedWeeks(_)
SortedWeeks(ws) ==
    IF ws = {} THEN <<>>
    ELSE LET w == CHOOSE x \in ws : \A y \in ws : x <= y
         IN  << w >> \o SortedWeeks(ws \ {w})

\* Start dates and raw games of the feed.
StartDates ==
    { IsoText(x[1], x[2]) : x \in {12, 13} \X {0, 2} } \cup { BadText }

RawGames ==
    { [ BlankRaw EXCEPT !.id = Some(x[1]), !.completed = Some(TRUE),
                        !.week = Some(x[2]),
                        !.home_team = Some(IF x[1] = 1 THEN "Alpha" ELSE "Beta"),
                        !.away_team = Some(IF x[1] = 1 THEN "Beta" ELSE "Gamma"),
                        !.home_points = Some(2), !.away_points = Some(1),
                        !.start_date = x[3] ] :
        x \in {1, 2} \X {1, 2} \X ({None} \cup { Some(d) : d \in StartDates }) }
    \cup
    { [ BlankRaw EXCEPT !.id = Some(3), !.completed = x[1], !.week = Some(1),
                        !.homeTeam = Some("Gamma"), !.awayTeam = Some(x[2]),
                        !.homePoints = Some(2), !.awayPoints = Some(x[3]),
                        !.startDate = Some(IsoText(12, 0)) ] :
        x \in { << Some(TRUE), "Alpha", 1 >>, << Some(FALSE), "Alpha", 1 >>,
                << Some(TRUE), "Nowhere", 1 >>, << Some(TRUE), "Alpha", 2 >> } }

\* ingest_games.main: the fetched games are normalized, grouped by week and
\* sorted, the timeline is built and every week's list is saved.
Ingest ==
    /\ pc = "ingest"
    /\ LET normalized == normalize_games(raw_games)
           weeks == SortedWeeks({ WeekOf(normalized[i]) : i \in 1..Len(normalized) })
       IN  /\ week_files' =
                [ i \in 1..Len(weeks) |->
                    Some(save_weekly_games(group_games_by_week(normalized, weeks[i]))) ]
           /\ timeline' = Len(weeks)
    /\ raw_games' = <<>>
    /\ pc' = "main"
    /\ week_paths' = [ i \in 1..timeline' |-> TRUE ]
    /\ UNCHANGED << ownership, key_order, team_to_fips, dry_run, week, weekly_summaries,
                    season_weeks, new_transfers, snapshots, index_file,
                    transfers_file, existing_transfers, ownership_file,
                    snapshot_keys >>
    /\ UNCHANGED << boardVars, mapVars >>
    /\ UNCHANGED weekVars

\* apply_transfers_for_week, lines 70-90, for a week whose file the ingestion
\* has written.
LoadWrittenWeek ==
    /\ pc = "main"
    /\ week < timeline
    /\ games' = week_files[week + 1][1]
    /\ gi' = 0
    /\ result' = None
    /\ pending' = {}
    /\ processed_games' = 0
    /\ county_transfers' = 0
    /\ transfer_records' = <<>>
    /\ pc' = "games"
    /\ UNCHANGED << summary, called_with, ownership, key_order, team_to_fips >>
    /\ UNCHANGED mainVars

\* The games are fetched and not yet ingested; apply_transfers starts on
\* the baseline once the ingestion is over.
InitIngest ==
    \E baseline \in Baselines, raws \in Feeds(RawGames, MaxGames) :
        /\ ownership = baseline
        /\ team_to_fips = build_team_reverse_index(baseline)
        /\ dry_run = FALSE
        /\ timeline = 0
        /\ week = 0
        /\ pc = "ingest"
        /\ raw_games = raws
        /\ week_files = <<>>
        /\ games = <<>>
        /\ gi = 0
        /\ result = None
        /\ called_with = baseline
        /\ pending = {}
        /\ processed_games = 0
        /\ county_transfers = 0
        /\ transfer_records = <<>>
        /\ summary = None
        /\ weekly_summaries = <<>>
        /\ season_weeks = <<0>>
        /\ new_transfers = <<>>
        /\ snapshots = (0 :> baseline)
        /\ index_file = None
        /\ transfers_file = <<>>
        /\ existing_transfers = <<>>
        /\ ownership_file = baseline
        /\ key_order = BaselineKeys
        /\ snapshot_keys = (0 :> BaselineKeys)
        /\ week_paths = <<>>
        /\ county_stats = None
        /\ payload = None
        /\ lb_files = <<>>
        /\ lb_index = None
        /\ lb_latest = None
        /\ features = <<>>
        /\ setup_ownership = None
        /\ baseline_centroids = None
        /\ current_ownership = None
        /\ logos = None

NextIngest ==
    \/ Ingest
    \/ LoadWrittenWeek
    \/ NextGame
    \/ TransferStep
    \/ AppendRecord
    \/ ReturnWeek
    \/ SaveWeek
    \/ Finish

\* ingest_games on a feed of at most MaxGames games, then apply_transfers
\* over the files it wrote.
SpecIngest == InitIngest /\ [][NextIngest]_vars

\* ------------------------------------------------------------ leaderboards

\* Entries of county-stats.json.  Areas are in thousandths of a square mile
\* (CENSUSAREA has three decimals); population and areaSqMi may be missing.
SmallEntry == [ population |-> None, areaSqMi |-> Some(4) ]

BigEntry == [ population |-> Some(5), areaSqMi |-> Some(2436) ]

\* A county-stats.json: for each region no entry (None) or an entry; c1 has
\* none or the big one, c2 the small or the big one, c3 the small one.
CountyStatsFiles ==
    { stats \in [Regions -> {None, Some(SmallEntry), Some(BigEntry)}] :
        /\ stats["c1"] # Some(SmallEntry)
        /\ stats["c2"] # None
        /\ stats["c3"] = Some(SmallEntry) }

\* A JSON string as a statistic: << "text", s >>, next to None and Some(n).
Text(s) == << "text", s >>

\* The float that is not a number, as a value no count or sum of the model
\* takes; FloatAdd is + on floats.
NaN == -1

FloatAdd(x, y) == IF x = NaN \/ y = NaN THEN NaN ELSE x + y

\* float(s) of a string: "nan" parses to NaN, "abc" raises ValueError.
ParsesAsFloat(s) == s = "nan"

\* _normalise_number: None counts as 0, a number as itself, a string as
\* float(value), or 0 when float raises.
normalise_number(value) ==
    IF value = None THEN 0
    ELSE IF Len(value) = 1 THEN value[1]
    ELSE IF ParsesAsFloat(value[2]) THEN NaN
    ELSE 0

\* county_stats.get(fips, {}).get(key), normalised.
CountyNumber(stats, fips, key) ==
    IF stats[fips] = None THEN 0 ELSE normalise_number(stats[fips][1][key])

\* The defaultdict's record for a team seen for the first time.
BlankTotals(team_id) ==
    [ teamId |-> team_id, counties |-> 0, population |-> 0, areaSqMi |-> 0 ]

\* totals[team_id] += ...: a dict in insertion order, as the sequence of its
\* records; a new team goes to the end.
RECURSIVE AddTo(_, _, _, _, _)
AddTo(totals, team_id, counties, population, area_sq_mi) ==
    IF totals = <<>>
    THEN AddTo(<< BlankTotals(team_id) >>, team_id, counties, population, area_sq_mi)
    ELSE IF Head(totals).teamId = team_id
    THEN << [ Head(totals) EXCEPT !.counties = @ + counties,
                                  !.population = FloatAdd(@, population),
                                  !.areaSqMi = FloatAdd(@, area_sq_mi) ] >> \o Tail(totals)
    ELSE << Head(totals) >> \o AddTo(Tail(totals), team_id, counties, population, area_sq_mi)

\* _collect_totals: the regions of the snapshot in file order, each added to
\* its owner's record.
RECURSIVE collect_totals(_, _, _)
collect_totals(keys, own, stats) ==
    IF keys = <<>> THEN <<>>
    ELSE LET fips == keys[Len(keys)]
         IN  AddTo(collect_totals(SubSeq(keys, 1, Len(keys) - 1), own, stats),
                   own[fips], 1,
                   CountyNumber(stats, fips, "population"),
                   CountyNumber(stats, fips, "areaSqMi"))

\* Sum of a statistic over a set of regions.
RECURSIVE SumOver(_, _, _)
SumOver(S, stats, key) ==
    IF S = {} THEN 0
    ELSE LET fips == CHOOSE x \in S : TRUE
         IN  FloatAdd(CountyNumber(stats, fips, key), SumOver(S \ {fips}, stats, key))

\* line 99: records without regions, winner or loser are passed over.
PassedOver(transfer) ==
    transfer.fips = {} \/ transfer.winnerId = "" \/ transfer.loserId = ""

\* line 108 counting the record once, whatever its number of regions
GainedCountiesPerRecord(transfer) == 1

\* lines 102 and 108: gained_record['counties'] += 1 for each region of the
\* record.
GainedCounties(transfer) == Cardinality(transfer.fips)

\* line 113 counting the record once, whatever its number of regions
LostCountiesPerRecord(transfer) == 1

\* lines 102 and 113: lost_record['counties'] += 1 for each region of the
\* record.
LostCounties(transfer) == Cardinality(transfer.fips)

\* _collect_transfer_deltas, lines 95-110: every region of every record is
\* added to the record of the winner.
RECURSIVE GainedRaw(_, _)
GainedRaw(transfers, stats) ==
    IF transfers = <<>> THEN <<>>
    ELSE LET transfer == transfers[Len(transfers)]
             before == GainedRaw(SubSeq(transfers, 1, Len(transfers) - 1), stats)
         IN  IF PassedOver(transfer) THEN before
             ELSE AddTo(before, transfer.winnerId, GainedCounties(transfer),
                        SumOver(transfer.fips, stats, "population"),
                        SumOver(transfer.fips, stats, "areaSqMi"))

\* _collect_transfer_deltas, lines 95-100 and 112-115: every region of every
\* record is added to the record of the loser.
RECURSIVE LostRaw(_, _)
LostRaw(transfers, stats) ==
    IF transfers = <<>> THEN <<>>
    ELSE LET transfer == transfers[Len(transfers)]
             before == LostRaw(SubSeq(transfers, 1, Len(transfers) - 1), stats)
         IN  IF PassedOver(transfer) THEN before
             ELSE AddTo(before, transfer.loserId, LostCounties(transfer),
                        SumOver(transfer.fips, stats, "population"),
                        SumOver(transfer.fips, stats, "areaSqMi"))

\* round(x, 2) on thousandths: the nearest hundredth (the sums of the model
\* never lie halfway between two).
Round2(x) == ((x + 5) \div 10) * 10

\* _format_metrics, line 123: int(round(population)) raises ValueError for a
\* population that is NaN.
FormatRaises(raw) == raw.population = NaN

\* _build_entries raises when formatting one of the records does.
BuildRaises(team_totals) ==
    \E i \in 1..Len(team_totals) : FormatRaises(team_totals[i])

\* _format_metrics
format_metrics(raw) ==
    [ counties |-> raw.counties,
      population |-> raw.population,
      areaSqMi |-> Round2(raw.areaSqMi) ]

\* _build_entries: one entry per team, in the order of the dict.
build_entries(team_totals) ==
    [ i \in 1..Len(team_totals) |->
        [ teamId |-> team_totals[i].teamId,
          metrics |-> format_metrics(team_totals[i]) ] ]

\* The sort key of lines 153-157 and whether key a is below key b.
BoardKey(item, metric) ==
    << item.metrics[metric], item.metrics.population, item.metrics.counties >>

BoardKeyLess(a, b) ==
    \/ a[1] < b[1]
    \/ a[1] = b[1] /\ a[2] < b[2]
    \/ a[1] = b[1] /\ a[2] = b[2] /\ a[3] < b[3]

\* sorted(..., reverse=True): descending and stable.  InsertDescending puts
\* the item behind every item that is not below it.
RECURSIVE InsertDescending(_, _, _)
InsertDescending(item, sorted, metric) ==
    IF sorted = <<>> THEN << item >>
    ELSE IF BoardKeyLess(BoardKey(Head(sorted), metric), BoardKey(item, metric))
    THEN << item >> \o sorted
    ELSE << Head(sorted) >> \o InsertDescending(item, Tail(sorted), metric)

RECURSIVE SortDescending(_, _)
SortDescending(entries, metric) ==
    IF entries = <<>> THEN <<>>
    ELSE InsertDescending(entries[Len(entries)],
                          SortDescending(SubSeq(entries, 1, Len(entries) - 1), metric),
                          metric)

\* line 160 without the filter
sorted_board_unfiltered(entries, metric) == SortDescending(entries, metric)

\* _sorted_board (TOP_ENTRIES is None): sorted, the entries whose metric is
\* not above 0 left out.
sorted_board(entries, metric) ==
    SelectSeq(SortDescending(entries, metric), LAMBDA entry : entry.metrics[metric] > 0)

\* _sorted_board_from_raw
sorted_board_from_raw(raw_metrics, metric) ==
    SelectSeq(SortDescending(build_entries(raw_metrics), metric),
              LAMBDA entry : entry.metrics[metric] > 0)

\* compute_leaderboard_payload raises when one of its three _build_entries
\* calls does (lines 202 and 207-208).
PayloadRaises(keys, own, stats, transfers) ==
    \/ BuildRaises(collect_totals(keys, own, stats))
    \/ BuildRaises(GainedRaw(transfers, stats))
    \/ BuildRaises(LostRaw(transfers, stats))

\* compute_leaderboard_payload
compute_leaderboard_payload(week_index, keys, own, stats, transfers) ==
    LET total_entries == build_entries(collect_totals(keys, own, stats))
    IN  [ weekIndex |-> week_index,
          territoryOwned |-> sorted_board(total_entries, "areaSqMi"),
          populationControlled |-> sorted_board(total_entries, "population"),
          countiesOwned |-> sorted_board(total_entries, "counties"),
          territoryGained |-> sorted_board_from_raw(GainedRaw(transfers, stats), "counties"),
          territoryLost |-> sorted_board_from_raw(LostRaw(transfers, stats), "counties"),
          trackedTeams |-> Len(total_entries),
          countyCount |-> Len(keys) ]

\* load_week_metadata: the week asked for, or the latest of the index.
load_week_metadata(weeks, week_index) ==
    IF week_index # None THEN week_index[1]
    ELSE CHOOSE w \in { weeks[i] : i \in 1..Len(weeks) } :
             \A i \in 1..Len(weeks) : weeks[i] <= w

\* load_transfers_for_week: the records of the week, in ledger order.
load_transfers_for_week(transfers, week_index) ==
    SelectSeq(transfers, LAMBDA transfer : transfer.weekIndex = week_index)

\* The season compute_leaderboards is run for (--season), and the seasons a
\* leaderboard is persisted for.
ThisSeason == 2

Seasons == {1, 2}

\* weeks.sort by weekIndex, ascending and stable: InsertWeek puts the entry
\* behind every entry whose weekIndex is not above its own.
RECURSIVE InsertWeek(_, _)
InsertWeek(item, sorted) ==
    IF sorted = <<>> THEN << item >>
    ELSE IF item < Head(sorted)
    THEN << item >> \o sorted
    ELSE << Head(sorted) >> \o InsertWeek(item, Tail(sorted))

RECURSIVE SortWeeks(_)
SortWeeks(items) ==
    IF items = <<>> THEN <<>>
    ELSE InsertWeek(items[Len(items)], SortWeeks(SubSeq(items, 1, Len(items) - 1)))

\* seasons.sort by season, ascending and stable.
RECURSIVE InsertSeason(_, _)
InsertSeason(item, sorted) ==
    IF sorted = <<>> THEN << item >>
    ELSE IF item.season < Head(sorted).season
    THEN << item >> \o sorted
    ELSE << Head(sorted) >> \o InsertSeason(item, Tail(sorted))

RECURSIVE SortSeasons(_)
SortSeasons(items) ==
    IF items = <<>> THEN <<>>
    ELSE InsertSeason(items[Len(items)], SortSeasons(SubSeq(items, 1, Len(items) - 1)))

\* lines 273-279: the (season, weekIndex) of every week of the index, in the
\* order the loops visit them.
RECURSIVE IndexedWeeks(_)
IndexedWeeks(seasons) ==
    IF seasons = <<>> THEN <<>>
    ELSE [ i \in 1..Len(Head(seasons).weeks) |->
             << Head(seasons).season, Head(seasons).weeks[i] >> ]
         \o IndexedWeeks(Tail(seasons))

\* candidate[:2] > latest_tuple[:2]
TupleGreater(a, b) == a[1] > b[1] \/ (a[1] = b[1] /\ a[2] > b[2])

\* lines 273-279: the first of the greatest tuples.
RECURSIVE LatestTuple(_)
LatestTuple(candidates) ==
    IF Len(candidates) = 1 THEN candidates[1]
    ELSE LET before == LatestTuple(SubSeq(candidates, 1, Len(candidates) - 1))
         IN  IF TupleGreater(candidates[Len(candidates)], before)
             THEN candidates[Len(candidates)]
             ELSE before

\* lines 257-266: the entries of another weekIndex, then the new entry.
ReplacedWeeks(weeks, week_index) ==
    Append(SelectSeq(weeks, LAMBDA w : w # week_index), week_index)

\* _update_index: the season's entry is found or appended, the week's entry
\* replaces an earlier entry of the same weekIndex, weeks and seasons are
\* sorted, and 'latest' names the greatest (season, weekIndex) of the index.
\* A week entry is its weekIndex (its path follows from season and weekIndex).
update_index(index, season, week_index) ==
    LET loaded == IF index = None THEN <<>> ELSE index[1].seasons
        found == \E i \in 1..Len(loaded) : loaded[i].season = season
        seasons == IF found THEN loaded
                   ELSE Append(loaded, [ season |-> season, weeks |-> <<>> ])
        first == CHOOSE i \in 1..Len(seasons) :
                     /\ seasons[i].season = season
                     /\ \A j \in 1..(i - 1) : seasons[j].season # season
        updated == [ seasons EXCEPT ![first].weeks =
                       SortWeeks(ReplacedWeeks(@, week_index)) ]
        sorted == SortSeasons(updated)
    IN  [ seasons |-> sorted, latest |-> LatestTuple(IndexedWeeks(sorted)) ]

\* line 309 saving the given payload whatever the latest week is
sync_latest_cache_always(index, files, latest_payload, season, week_index) ==
    latest_payload

\* _sync_latest_cache: latest.json gets the payload when its week is the
\* latest, otherwise the file of the latest week (the payload when that file
\* is missing).
sync_latest_cache(index, files, latest_payload, season, week_index) ==
    IF index.latest = << season, week_index >> THEN latest_payload
    ELSE IF index.latest \in DOMAIN files THEN files[index.latest]
    ELSE latest_payload

\* persist_leaderboard: the week's file, the index and latest.json after the
\* call.
persist_leaderboard(files, index, season, week_index, new_payload) ==
    LET saved == (<< season, week_index >> :> new_payload) @@ files
        index_payload == update_index(index, season, week_index)
    IN  [ files |-> saved,
          index |-> Some(index_payload),
          latest |-> Some(sync_latest_cache(index_payload, saved, new_payload,
                                            season, week_index)) ]

\* compute_leaderboards.main after an apply_transfers run that wrote the
\* ownership index: the week's snapshot, the stats and the week's records are
\* loaded, the payload is computed and persisted.  When computing the payload
\* raises, the run ends with the exception and nothing is persisted.
ComputeLeaderboardsWith(stats_files) ==
    /\ pc = "done"
    /\ index_file # None
    /\ \E asked \in {None} \cup { Some(index_file[1][i]) : i \in 1..Len(index_file[1]) },
          stats \in stats_files :
         LET week_index == load_week_metadata(index_file[1], asked)
             transfers == load_transfers_for_week(transfers_file, week_index)
             computed == compute_leaderboard_payload(
                             week_index, snapshot_keys[week_index],
                             snapshots[week_index], stats, transfers)
             persisted == persist_leaderboard(lb_files, lb_index, ThisSeason,
                                              week_index, computed)
         IN  /\ county_stats' = Some(stats)
             /\ IF PayloadRaises(snapshot_keys[week_index], snapshots[week_index],
                                 stats, transfers)
                THEN /\ pc' = "raised"
                     /\ UNCHANGED << payload, lb_files, lb_index, lb_latest >>
                ELSE /\ pc' = "boards"
                     /\ payload' = Some(computed)
                     /\ lb_files' = persisted.files
                     /\ lb_index' = persisted.index
                     /\ lb_latest' = persisted.latest
    /\ UNCHANGED << ownership, key_order, team_to_fips, dry_run, timeline, week,
                    raw_games, week_files, weekly_summaries, season_weeks,
                    new_transfers, snapshots, index_file, transfers_file,
                    existing_transfers, ownership_file, snapshot_keys, week_paths >>
    /\ UNCHANGED weekVars
    /\ UNCHANGED mapVars

ComputeLeaderboards == ComputeLeaderboardsWith(CountyStatsFiles)

NextBoards ==
    \/ LoadWeek
    \/ NextGame
    \/ TransferStep
    \/ AppendRecord
    \/ ReturnWeek
    \/ SaveWeek
    \/ Finish
    \/ ComputeLeaderboards

InitBoards ==
    \E baseline \in CanonicalBaselines, nweeks \in 0..MaxWeeks :
        InitMain(baseline, FALSE, nweeks)

\* A run of apply_transfers followed by a run of compute_leaderboards.
SpecBoards == InitBoards /\ [][NextBoards]_vars

\* ----------------------------------------------------------------- claims

\* Regions a team owns in an ownership map.
OwnedIn(own, t) == { fips \in DOMAIN own : own[fips] = t }

\* C1. Coverage: in every state of the weekly advance the ownership map has
\* exactly the baseline's regions as keys (the week-0 snapshot holds the
\* baseline) and maps each of them to a team.
C1_Coverage ==
    /\ DOMAIN ownership = DOMAIN snapshots[0]
    /\ \A fips \in DOMAIN ownership : ownership[fips] \in Teams

\* C1 witness: two weeks are done, each with a transfer, and the ownership is
\* no longer the baseline.
C1_Witness ==
    /\ pc = "done"
    /\ week = 2
    /\ Len(new_transfers) = 2
    /\ new_transfers[1].weekIndex = 1
    /\ new_transfers[2].weekIndex = 2
    /\ ownership # snapshots[0]

\* C2. Reverse-index consistency: in every state, hence after every single
\* region transfer, each team's set in the reverse index is exactly the set
\* of regions the ownership map gives to that team.
C2_IndexConsistent ==
    \A t \in Teams : team_to_fips[t] = OwnedIn(ownership, t)

\* C2 witness: the inner loop has moved one region and has more to move.
C2_Witness ==
    /\ pc = "transfers"
    /\ pending # {}
    /\ pending # result[1].transfers
    /\ ownership # called_with

\* C3. Conservation: for a game the weekly advance accepted, the transferred
\* regions are regions the loser owned when the game was taken; once the inner
\* loop is over, the winner owns its prior regions and the transferred ones,
\* the loser its prior regions minus the transferred ones, and every region of
\* a third team has kept its owner.
C3_Conservation ==
    (result # None /\ pc # "tested") =>
        LET W == result[1].winner
            L == result[1].loser
            T == result[1].transfers
        IN  /\ T \subseteq OwnedIn(called_with, L)
            /\ pending = {} =>
                 /\ OwnedIn(ownership, W) = OwnedIn(called_with, W) \cup T
                 /\ OwnedIn(ownership, L) = OwnedIn(called_with, L) \ T
                 /\ \A fips \in DOMAIN called_with :
                        called_with[fips] \notin {W, L} =>
                            ownership[fips] = called_with[fips]

\* C3 witness: a game moved two regions while a third team owned the other.
C3_Witness ==
    /\ pc = "games"
    /\ result # None
    /\ result[1].transfer_count = 2
    /\ \E fips \in DOMAIN called_with :
           called_with[fips] \notin {result[1].winner, result[1].loser}
    /\ ownership # called_with

\* The winner / loser id a game names under any of the three key styles.
NamedIds(game, keys) == { game[k][1] : k \in { k2 \in keys : game[k2] # None } }

\* C4. All-of-loser rule: a result that is not None names the game's winner and
\* loser, its transfers are exactly the regions the loser owned at the call
\* (with the live reverse index, or by the scan when no index is passed),
\* transfer_count is their number, and once the game is applied the loser owns
\* no region.
C4_AllOfLoser ==
    result # None =>
        LET game == games[gi]
            W == result[1].winner
            L == result[1].loser
        IN  /\ NamedIds(game, {"winner_id", "winnerId", "winner"}) # {}
               /\ NamedIds(game, {"loser_id", "loserId", "loser"}) # {}
               => /\ W \in NamedIds(game, {"winner_id", "winnerId", "winner"})
                  /\ L \in NamedIds(game, {"loser_id", "loserId", "loser"})
            /\ result[1].transfers = OwnedIn(called_with, L)
            /\ result[1].transfer_count = Cardinality(OwnedIn(called_with, L))
            /\ pc \in {"games", "returned", "main", "done"} =>
                 /\ OwnedIn(ownership, L) = {}
                 /\ team_to_fips[L] = {}

\* C4 witness: an applied game whose loser owned two regions.
C4_Witness ==
    /\ pc = "returned"
    /\ result # None
    /\ result[1].transfer_count = 2
    /\ OwnedIn(called_with, result[1].loser) # {}
    /\ OwnedIn(ownership, result[1].loser) = {}

\* C5 (as claimed). A game whose completed flag is false or absent and whose
\* status, if any, is neither 'final' nor 'completed' gives None, and the
\* weekly advance changes neither ownership, reverse index nor ledger.
C5_NotCompleteRejected ==
    gi >= 1 =>
        LET game == games[gi]
        IN  (/\ game.completed # Some(TRUE)
             /\ \/ game.status = None
                \/ Lower(game.status[1]) \notin {"final", "completed"})
            => /\ result = None
               /\ ownership = snapshots[0]
               /\ team_to_fips = build_team_reverse_index(snapshots[0])
               /\ transfer_records = <<>>
               /\ new_transfers = <<>>

\* First value present among two keys of a game.
FirstPresent(a, b) == IF a # None THEN a ELSE b

\* C6. A game whose winner or loser cannot be determined (winner or loser id
\* not given, and a score or a team id missing or the two scores equal), or
\* whose winner equals its loser, gives None; it is not counted as processed,
\* appends no record and leaves ownership and reverse index as they were.
C6_Undetermined(game) ==
    LET winners == NamedIds(game, {"winner_id", "winnerId", "winner"})
        losers  == NamedIds(game, {"loser_id", "loserId", "loser"})
        hs == FirstPresent(game.home_score, game.homeScore)
        as == FirstPresent(game.away_score, game.awayScore)
        ht == FirstPresent(game.home_team_id, game.homeTeamId)
        at == FirstPresent(game.away_team_id, game.awayTeamId)
    IN  \/ /\ winners = {} \/ losers = {}
           /\ \/ hs = None \/ as = None \/ ht = None \/ at = None
              \/ hs = as
        \/ /\ winners # {} /\ losers # {}
           /\ winners = losers
        \/ /\ winners = {} \/ losers = {}
           /\ ht # None /\ ht = at

C6_UndeterminedRejected ==
    (gi >= 1 /\ C6_Undetermined(games[gi])) =>
        /\ result = None
        /\ processed_games = 0
        /\ transfer_records = <<>>
        /\ new_transfers = <<>>
        /\ ownership = snapshots[0]
        /\ team_to_fips = build_team_reverse_index(snapshots[0])

\* C6 witness: the weekly advance went through a tied game.
C6_Witness ==
    /\ pc = "returned"
    /\ gi = 1
    /\ games[1].home_score = Some(1)
    /\ games[1].away_score = Some(1)
    /\ games[1].home_team_id = Some("A")
    /\ games[1].away_team_id = Some("B")
    /\ summary[1].gamesProcessed = 0

\* C7 (as claimed). Week-replay idempotence: a week whose feed is the feed of
\* the week before it, applied to what that week left, transfers no region and
\* appends no record.
C7_ReplayTransfersNothing ==
    (pc = "returned" /\ week = 1 /\ week_files[2] = week_files[1]
       /\ week_files[1] # None) =>
        /\ summary[1].countiesTransferred = 0
        /\ summary[1].transfers = Some(<<>>)
        /\ ownership = snapshots[1]

\* C8. Single-result idempotence: when the game the loop takes is the game it
\* took just before, and that one was accepted, the second application has
\* transfer_count 0, appends no record and leaves ownership and reverse index
\* unchanged; and a step never moves a region that the loser does not own.
C8_Step ==
    /\ (pc = "games" /\ gi >= 1 /\ gi' = gi + 1 /\ result # None
          /\ games[gi + 1] = games[gi])
       => /\ result' # None
          /\ result'[1].transfer_count = 0
          /\ pc' = "games"
          /\ ownership' = ownership
          /\ team_to_fips' = team_to_fips
          /\ transfer_records' = transfer_records
    /\ \A fips \in DOMAIN ownership :
          (fips \in DOMAIN ownership' /\ ownership'[fips] # ownership[fips])
          => /\ ownership[fips] = result[1].loser
             /\ ownership'[fips] = result[1].winner

C8_SingleResultIdempotent == [][C8_Step]_vars

\* C8 witness: the same game was applied twice in a row; the first application
\* moved regions and left one record, the second nothing.
C8_Witness ==
    /\ pc = "games"
    /\ gi = 2
    /\ games[1] = games[2]
    /\ result # None
    /\ result[1].transfer_count = 0
    /\ Len(transfer_records) = 1
    /\ ownership # snapshots[week]

\* A game's start time as an instant, or None when its startDate is absent
\* or does not parse.
StartInstant(game) ==
    IF game.startDate = None THEN None
    ELSE IF fromisoformat(game.startDate[1]) = None THEN None
    ELSE Some(Instant(fromisoformat(game.startDate[1])[1]))

\* C9 (as claimed). Ordering within a week: in the list the weekly advance
\* applies front to back, a game with a strictly earlier start time stands
\* before one with a later start time, and games with equal start time stand
\* in ascending game-id order.
C9_ChronologicalOrder ==
    pc \in {"games", "transfers", "returned"} =>
        \A i \in 1..Len(games), j \in 1..Len(games) :
            (i < j /\ StartInstant(games[i]) # None /\ StartInstant(games[j]) # None)
            => /\ StartInstant(games[i])[1] <= StartInstant(games[j])[1]
               /\ StartInstant(games[i])[1] = StartInstant(games[j])[1]
                    => games[i].id[1] <= games[j].id[1]

\* C10. Later results observe earlier transfers of the same week: after a week
\* whose feed is [Y beats X, Z beats Y] for three different teams, Z owns
\* every region X, Y and Z owned before the week, and X and Y own none.
C10_LaterSeesEarlier ==
    (pc = "returned" /\ Len(games) = 2 /\ gi = 2
       /\ games[1].winnerId = games[2].loserId
       /\ games[1].loserId # games[2].winnerId) =>
        LET X == games[1].loserId[1]
            Y == games[1].winnerId[1]
            Z == games[2].winnerId[1]
            before == snapshots[week]
        IN  /\ OwnedIn(ownership, Z) =
                 OwnedIn(before, X) \cup OwnedIn(before, Y) \cup OwnedIn(before, Z)
            /\ OwnedIn(ownership, X) = {}
            /\ OwnedIn(ownership, Y) = {}

\* C10 witness: baseline {A: [c1, c2], B: [c3]}, feed [B beats A, C beats B],
\* ending with C owning c1, c2 and c3.
C10_Witness ==
    /\ pc = "returned"
    /\ week = 0
    /\ snapshots[0] = [fips \in Regions |-> IF fips = "c3" THEN "B" ELSE "A"]
    /\ Len(games) = 2 /\ gi = 2
    /\ games[1].winnerId = Some("B") /\ games[1].loserId = Some("A")
    /\ games[2].winnerId = Some("C") /\ games[2].loserId = Some("B")
    /\ ownership = [fips \in Regions |-> "C"]

\* C11. Ledger record exactness: the record appended for a game carries the
\* game's winner and loser, lists exactly the regions whose owner changed
\* while the game was applied, each of them from that loser to that winner,
\* and its transferCount is the size of that list.
C11_RecordExact ==
    (pc = "games" /\ gi > 0 /\ result # None /\ result[1].transfer_count > 0) =>
        LET rec == transfer_records[Len(transfer_records)]
        IN  /\ rec.gameId = games[gi].id
            /\ rec.winnerId = games[gi].winnerId[1]
            /\ rec.loserId = games[gi].loserId[1]
            /\ rec.fips = { r \in Regions : called_with[r] # ownership[r] }
            /\ \A r \in rec.fips : /\ called_with[r] = rec.loserId
                                   /\ ownership[r] = rec.winnerId
            /\ rec.transferCount = Cardinality(rec.fips)

\* A record of two regions has just been appended in the second week.
C11_Witness ==
    /\ pc = "games" /\ gi > 0 /\ week = 1
    /\ result # None
    /\ result[1].transfer_count = 2
    /\ Len(transfer_records) = 1

\* C12 (as claimed, the baseline snapshot of week 0 left aside). No partial
\* writes: when the run has aborted, it has written no weekly snapshot, no
\* ownership index and no ledger.
C12_NothingPersistedOnAbort ==
    pc = "aborted" =>
        /\ DOMAIN snapshots \subseteq {0}
        /\ index_file = None
        /\ transfers_file = existing_transfers

\* The records of a week's games as (weekIndex, gameId), in file order.
RECURSIVE GameKeys(_, _)
GameKeys(w, gs) ==
    IF gs = <<>> THEN <<>>
    ELSE << << w, Head(gs).id >> >> \o GameKeys(w, Tail(gs))

\* The games of the weeks 1..n in the order they are applied.
RECURSIVE AppliedGames(_)
AppliedGames(n) ==
    IF n = 0 THEN <<>>
    ELSE AppliedGames(n - 1) \o
           (IF week_files[n] = None THEN <<>> ELSE GameKeys(n, week_files[n][1]))

\* Whether a is b with some elements left out.
RECURSIVE IsSubseq(_, _)
IsSubseq(a, b) ==
    IF a = <<>> THEN TRUE
    ELSE IF b = <<>> THEN FALSE
    ELSE IF Head(a) = Head(b) THEN IsSubseq(Tail(a), Tail(b))
    ELSE IsSubseq(a, Tail(b))

\* C13. The persisted ledger is append-only: the records that were in
\* transfers.json before the run stay, unchanged and in order, as a prefix of
\* the file at every moment; after the run they are followed by the records
\* of the run, in the order the games were applied.
C13_LedgerAppendOnly ==
    LET n == Len(existing_transfers)
    IN  /\ Len(transfers_file) >= n
        /\ SubSeq(transfers_file, 1, n) = existing_transfers
        /\ pc = "done" =>
             LET added == SubSeq(transfers_file, n + 1, Len(transfers_file))
             IN  /\ added \in {<<>>, new_transfers}
                 /\ ~dry_run => added = new_transfers
                 /\ IsSubseq([ i \in 1..Len(added) |->
                                << added[i].weekIndex, added[i].gameId >> ],
                             AppliedGames(week))

\* The run found a ledger and has added the records of two games to it.
C13_Witness ==
    /\ pc = "done"
    /\ existing_transfers # <<>>
    /\ Len(transfers_file) = Len(existing_transfers) + 2

\* The ownership after a game, from the ownership before it: every region of
\* the loser goes to the winner.
AfterGame(own, game) ==
    LET res == process_game_result(game, own, NoIndex)
    IN  IF res = None THEN own
        ELSE [ r \in DOMAIN own |->
                 IF own[r] = res[1].loser THEN res[1].winner ELSE own[r] ]

RECURSIVE AfterFeed(_, _)
AfterFeed(own, feed) ==
    IF feed = <<>> THEN own ELSE AfterFeed(AfterGame(own, Head(feed)), Tail(feed))

\* The ownership after the weeks 1..n, from the baseline and the weekly files.
RECURSIVE AfterWeeks(_)
AfterWeeks(n) ==
    IF n = 0 THEN ownership_file
    ELSE IF week_files[n] = None THEN AfterWeeks(n - 1)
    ELSE AfterFeed(AfterWeeks(n - 1), week_files[n][1])

\* C14. Determinism: every snapshot a run writes is a function of the
\* baseline and the ordered weekly feeds alone, owners and order of regions
\* both, whatever order the sets are iterated in and whatever the clock
\* shows; so two runs on the same inputs write the same snapshots.
C14_SnapshotsDetermined ==
    \A w \in DOMAIN snapshots :
        /\ snapshots[w] = AfterWeeks(w)
        /\ snapshot_keys[w] = BaselineKeys

\* A snapshot written after two regions were taken in one game, in either
\* order, with records stamped at different times.
C14_Witness ==
    /\ 1 \in DOMAIN snapshots
    /\ Cardinality({ r \in Regions : snapshots[1][r] # snapshots[0][r] }) >= 2
    /\ \E i, j \in 1..Len(new_transfers) :
         new_transfers[i].completedAt # new_transfers[j].completedAt

C15_Step ==
    /\ 0 \in DOMAIN snapshots => snapshots[0] = ownership_file
    /\ \A w \in DOMAIN snapshots :
         /\ w \in DOMAIN snapshots'
         /\ snapshots'[w] = snapshots[w]
    /\ \A w \in DOMAIN snapshots' \ DOMAIN snapshots :
         /\ w = week + 1
         /\ pc = "returned"
         /\ summary[1].transfers # None => gi = Len(games)
         /\ snapshots'[w] = ownership

\* C15. Prior weeks' snapshots are immutable: a snapshot is written once,
\* when its week has returned, with the ownership as it stands then (week 0
\* with the loaded baseline), and no later step changes a written snapshot.
C15_SnapshotsImmutable == [][C15_Step]_vars

\* The ownership has moved on from what the snapshots of week 0 and week 1
\* hold.
C15_Witness ==
    /\ 1 \in DOMAIN snapshots
    /\ snapshots[1] # snapshots[0]
    /\ ownership # snapshots[1]
    /\ week = 1

\* Number of games of the list that process_game_result rejects.
Skipped(gs) ==
    Cardinality({ i \in 1..Len(gs) :
                    process_game_result(gs[i], ownership, NoIndex) = None })

\* C16 (as claimed). Skipped results are reported: the summary of a week in
\* which games were dropped carries the number of dropped games.
C16_SkippedReported ==
    (pc = "returned" /\ summary[1].transfers # None /\ Skipped(games) > 0) =>
        /\ "skipped" \in DOMAIN summary[1]
        /\ summary[1]["skipped"] = Skipped(games)

\* C17. Missing week data: for a week whose file is absent the call returns
\* a summary flagged missing, with no game processed, no region transferred
\* and no records, and ownership and reverse index are as the week before
\* left them; the summary of a week whose file exists is never flagged.
C17_MissingDistinguishable ==
    pc = "returned" =>
        /\ (week_paths[week + 1] /\ week_files[week + 1] = None) =>
             /\ summary[1].missing
             /\ summary[1].gamesProcessed = 0
             /\ summary[1].countiesTransferred = 0
             /\ summary[1].transfers = None
             /\ ownership = snapshots[week]
             /\ team_to_fips = build_team_reverse_index(snapshots[week])
        /\ week_files[week + 1] # None => ~summary[1].missing

\* The second week's file is absent, after a first week with transfers.
C17_Witness ==
    /\ pc = "returned" /\ week = 1
    /\ week_paths[2] /\ week_files[2] = None
    /\ snapshots[1] # snapshots[0]
    /\ summary[1].missing

\* Positions of a team's entries on a board, and the value a board shows for
\* a team (0 when the team is not listed).
EntriesOf(board, t) == { i \in 1..Len(board) : board[i].teamId = t }

BoardValue(board, t, metric) ==
    IF EntriesOf(board, t) = {} THEN 0
    ELSE board[CHOOSE i \in EntriesOf(board, t) : TRUE].metrics[metric]

\* Number of region ids in the ledger's records of week w in which team t
\* has the given role ("winnerId" or "loserId").
RECURSIVE LedgerRegions(_, _, _, _)
LedgerRegions(ledger, w, t, role) ==
    IF ledger = <<>> THEN 0
    ELSE (IF Head(ledger).weekIndex = w /\ Head(ledger)[role] = t
          THEN Cardinality(Head(ledger).fips) ELSE 0)
         + LedgerRegions(Tail(ledger), w, t, role)

\* C18. Gained and lost boards come only from the week's ledger: each team
\* has at most one entry on each board, its gained count is the number of
\* region ids in the week's records it won and its lost count the number in
\* the records it lost; for baseline {A:[c1,c2], B:[c3]} and feed [A beats B]
\* the boards of week 1 are gained[A] = 1 and lost[B] = 1.
C18_BoardsFromLedger ==
    pc = "boards" =>
        LET w == payload[1].weekIndex
            gained == payload[1].territoryGained
            lost == payload[1].territoryLost
        IN  /\ \A t \in Teams :
                 /\ Cardinality(EntriesOf(gained, t)) <= 1
                 /\ Cardinality(EntriesOf(lost, t)) <= 1
                 /\ BoardValue(gained, t, "counties")
                      = LedgerRegions(transfers_file, w, t, "winnerId")
                 /\ BoardValue(lost, t, "counties")
                      = LedgerRegions(transfers_file, w, t, "loserId")
            /\ ( /\ ownership_file = [ r \in Regions |-> IF r = "c3" THEN "B" ELSE "A" ]
                 /\ week_files = << Some(<< NormalizedGame(12, "A", "B", 2, 1) >>) >>
                 /\ w = 1 )
               => /\ Len(gained) = 1 /\ BoardValue(gained, "A", "counties") = 1
                  /\ Len(lost) = 1 /\ BoardValue(lost, "B", "counties") = 1

\* A team gained two regions in the week and the week's snapshot leaves it
\* none: the boards cannot be the difference of two snapshots.
C18_Witness ==
    /\ pc = "boards"
    /\ \E t \in Teams :
         /\ BoardValue(payload[1].territoryGained, t, "counties") = 2
         /\ BoardValue(payload[1].territoryLost, t, "counties") = 3
         /\ \A r \in Regions : snapshots[payload[1].weekIndex][r] # t

\* Sum of the region counts over the entries of a board.
RECURSIVE SumCounties(_)
SumCounties(board) ==
    IF board = <<>> THEN 0
    ELSE Head(board).metrics.counties + SumCounties(Tail(board))

\* C19. Leaderboard closure: the region counts of the gained board and of the
\* lost board have the same sum.
C19_Closure ==
    pc = "boards" =>
        SumCounties(payload[1].territoryGained) = SumCounties(payload[1].territoryLost)

\* Two teams gained and two teams lost, five regions in all.
C19_Witness ==
    /\ pc = "boards"
    /\ Len(payload[1].territoryGained) = 2
    /\ Len(payload[1].territoryLost) = 2
    /\ SumCounties(payload[1].territoryGained) = 5

\* The exact total of a statistic over the regions team t owns in the
\* snapshot the payload was computed from.
OwnedTotal(t, metric) ==
    LET owned == OwnedIn(snapshots[payload[1].weekIndex], t)
    IN  IF metric = "counties" THEN Cardinality(owned)
        ELSE SumOver(owned, county_stats[1], metric)

\* The owned boards with their metrics.
OwnedBoards ==
    { << payload[1].territoryOwned, "areaSqMi" >>,
      << payload[1].populationControlled, "population" >>,
      << payload[1].countiesOwned, "counties" >> }

\* C20 (as claimed). Each owned board shows for a listed team the total of
\* the board's statistic over the regions the team owns, and lists a team
\* exactly when that total is greater than zero.
C20_OwnedBoardsExact ==
    pc = "boards" =>
        \A b \in OwnedBoards, t \in Teams :
            /\ Cardinality(EntriesOf(b[1], t)) <= 1
            /\ EntriesOf(b[1], t) # {} <=> OwnedTotal(t, b[2]) > 0
            /\ BoardValue(b[1], t, b[2]) = OwnedTotal(t, b[2])

\* What a board shows for a total: areas to the hundredth of a square mile.
Shown(total, metric) == IF metric = "areaSqMi" THEN Round2(total) ELSE total

\* C20 (amended). Each owned board shows for a listed team the total of the
\* board's statistic over the regions the team owns, the area rounded to two
\* decimals, and lists a team exactly when the value shown is greater than
\* zero; a team missing from one board can be on another.
C20_OwnedBoardsRounded ==
    pc = "boards" =>
        \A b \in OwnedBoards, t \in Teams :
            /\ Cardinality(EntriesOf(b[1], t)) <= 1
            /\ EntriesOf(b[1], t) # {} <=> Shown(OwnedTotal(t, b[2]), b[2]) > 0
            /\ BoardValue(b[1], t, b[2]) = Shown(OwnedTotal(t, b[2]), b[2])

\* A team is on the region-count board and on neither other board, and
\* another team's area is shown rounded.
C20_Witness ==
    /\ pc = "boards"
    /\ \E t \in Teams :
         /\ EntriesOf(payload[1].countiesOwned, t) # {}
         /\ EntriesOf(payload[1].populationControlled, t) = {}
         /\ EntriesOf(payload[1].territoryOwned, t) = {}
    /\ \E t \in Teams :
         /\ EntriesOf(payload[1].territoryOwned, t) # {}
         /\ BoardValue(payload[1].territoryOwned, t, "areaSqMi") # OwnedTotal(t, "areaSqMi")

\* ---------------------------------------------------------------------------
\* Board order and input order
\* ---------------------------------------------------------------------------

\* The orderings of a list.
Orderings(seq) ==
    { [ i \in 1..Len(seq) |-> seq[p[i]] ] :
        p \in { q \in [1..Len(seq) -> 1..Len(seq)] :
                  \A i, j \in 1..Len(seq) : q[i] = q[j] => i = j } }

\* C21: every board has the same order of entries for every input ordering of
\* the same regions and ledger records: the payload computed from the week's
\* snapshot and records is the payload computed from any reordering of the
\* snapshot's keys and of the records.
C21_OrderDeterministic ==
    pc = "boards" =>
        LET week_index == payload[1].weekIndex
            transfers == load_transfers_for_week(transfers_file, week_index)
        IN  \A keys \in Orderings(snapshot_keys[week_index]),
               records \in Orderings(transfers) :
                compute_leaderboard_payload(week_index, keys, snapshots[week_index],
                                            county_stats[1], records) = payload[1]

\* ---------------------------------------------------------------------------
\* Statistics that are missing or not numbers
\* ---------------------------------------------------------------------------

\* Entries whose population is a JSON string: one that float() rejects and
\* one that float() parses to NaN.
WordEntry == [ population |-> Text("abc"), areaSqMi |-> Some(4) ]

NanEntry == [ population |-> Text("nan"), areaSqMi |-> Some(4) ]

\* A county-stats.json where c1 has no entry, the big entry or an entry whose
\* population is a string.
AnyCountyStatsFiles ==
    { stats \in [Regions -> {None, Some(SmallEntry), Some(BigEntry),
                             Some(WordEntry), Some(NanEntry)}] :
        /\ stats["c1"] # Some(SmallEntry)
        /\ stats["c2"] = Some(BigEntry)
        /\ stats["c3"] = Some(SmallEntry) }

ComputeAnyLeaderboards == ComputeLeaderboardsWith(AnyCountyStatsFiles)

NextStats ==
    \/ LoadWeek
    \/ NextGame
    \/ TransferStep
    \/ AppendRecord
    \/ ReturnWeek
    \/ SaveWeek
    \/ Finish
    \/ ComputeAnyLeaderboards

\* A run of apply_transfers followed by a run of compute_leaderboards over
\* statistics with populations that are not numbers.
SpecStats == InitBoards /\ [][NextStats]_vars

\* Whether a region's population is a number in the stats.
HasNumber(stats, fips, key) ==
    /\ stats[fips] # None
    /\ stats[fips][1][key] # None
    /\ Len(stats[fips][1][key]) = 1

\* The sum of a statistic over the regions a team owns, a region without a
\* number counting as 0.
RECURSIVE DegradedSum(_, _, _)
DegradedSum(S, stats, key) ==
    IF S = {} THEN 0
    ELSE LET fips == CHOOSE x \in S : TRUE
         IN  (IF HasNumber(stats, fips, key) THEN stats[fips][1][key][1] ELSE 0)
             + DegradedSum(S \ {fips}, stats, key)

\* C22: a region without an entry, or whose population is missing or not a
\* number, adds 0 to its owner's population but counts as 1 region, and never
\* makes the aggregation fail: once compute_leaderboards has run, the payload
\* exists, every team's population total is the sum of the numbers of its
\* regions, and the counts of the region-count board sum to the number of
\* regions of the snapshot.
C22_MissingDegradesToZero ==
    pc \in {"boards", "raised"} =>
        /\ pc = "boards"
        /\ LET week_index == payload[1].weekIndex
               own == snapshots[week_index]
               totals == collect_totals(snapshot_keys[week_index], own, county_stats[1])
           IN  /\ \A i \in 1..Len(totals) :
                    /\ totals[i].population =
                         DegradedSum({ r \in Regions : own[r] = totals[i].teamId },
                                     county_stats[1], "population")
                    /\ totals[i].counties =
                         Cardinality({ r \in Regions : own[r] = totals[i].teamId })
               /\ SumCounties(payload[1].countiesOwned) = Cardinality(Regions)

\* ---------------------------------------------------------------------------
\* Territory markers (lib/centroid_calculator.py, lib/region_calculator.py)
\* ---------------------------------------------------------------------------

\* teams.json: the teams in file order; a team's name is its id.
TeamList == << "A", "B", "C" >>

\* The county features: STATE ('02' is Alaska), CENSUSAREA and the latitude
\* of the centroid.  All centroids lie on one meridian, so that the distance
\* between two of them grows with the difference of their latitudes.
CountyState == [ r \in Regions |-> IF r = "c3" THEN "02" ELSE "13" ]

CountyArea == [ r \in Regions |-> IF r = "c1" THEN 2436 ELSE 4 ]

CountyLat == [ r \in Regions |-> CASE r = "c1" -> 10 [] r = "c2" -> 20 [] OTHER -> 60 ]

\* Campus latitude of each team.
TeamLat == [ t \in Teams |-> CASE t = "A" -> 10 [] t = "B" -> 20 [] OTHER -> 30 ]

\* The counties of an ownership dict that belong to a team, in dict order
\* (territory_counties[team_id]).
CountiesOf(own, team_id) == SelectSeq(BaselineKeys, LAMBDA fips : own[fips] = team_id)

\* summarize_cluster's anchor: the county nearest to the weighted centroid of
\* the cluster.  A cluster of the model has at most two counties, of different
\* weight, and the centroid is nearer to the heavier one.
Anchor(counties) ==
    CHOOSE i \in 1..Len(counties) :
        \A j \in 1..Len(counties) : CountyArea[counties[j]] <= CountyArea[counties[i]]

RECURSIVE ClusterArea(_)
ClusterArea(counties) ==
    IF counties = <<>> THEN 0
    ELSE CountyArea[Head(counties)] + ClusterArea(Tail(counties))

\* make_entry
make_entry(team_id, counties, region_tag) ==
    [ teamId |-> team_id,
      latitude |-> CountyLat[counties[Anchor(counties)]],
      anchorFips |-> Some(counties[Anchor(counties)]),
      areaSqMi |-> ClusterArea(counties),
      countyCount |-> Len(counties),
      region |-> region_tag ]

\* lines 169-224: the entries of one team in the order they are appended.
TeamCentroids(own, team_id) ==
    LET counties_for_team == CountiesOf(own, team_id)
        alaska_counties == SelectSeq(counties_for_team, LAMBDA c : CountyState[c] = "02")
        mainland_counties == SelectSeq(counties_for_team, LAMBDA c : CountyState[c] # "02")
    IN  (IF mainland_counties # <<>>
         THEN << make_entry(team_id, mainland_counties, Some("mainland")) >>
         ELSE IF alaska_counties # <<>>
         THEN << make_entry(team_id, alaska_counties, Some("alaska")) >>
         ELSE << [ teamId |-> team_id, latitude |-> TeamLat[team_id],
                   anchorFips |-> None, areaSqMi |-> 0, countyCount |-> 0,
                   region |-> None ] >>)
        \o (IF mainland_counties # <<>> /\ alaska_counties # <<>>
            THEN << make_entry(team_id, alaska_counties, Some("alaska")) >>
            ELSE <<>>)

\* line 227: the sort key (teamName, region or '') and its order
\* ('' < 'alaska' < 'mainland').
CentroidKey(entry) ==
    << TeamNo[entry.teamId],
       IF entry.region = None THEN 0 ELSE IF entry.region[1] = "alaska" THEN 1 ELSE 2 >>

CentroidKeyLess(a, b) == a[1] < b[1] \/ (a[1] = b[1] /\ a[2] < b[2])

\* list.sort: ascending and stable.
RECURSIVE InsertCentroid(_, _)
InsertCentroid(entry, sorted) ==
    IF sorted = <<>> THEN << entry >>
    ELSE IF CentroidKeyLess(CentroidKey(entry), CentroidKey(Head(sorted)))
    THEN << entry >> \o sorted
    ELSE << Head(sorted) >> \o InsertCentroid(entry, Tail(sorted))

RECURSIVE SortCentroids(_)
SortCentroids(entries) ==
    IF entries = <<>> THEN <<>>
    ELSE InsertCentroid(entries[Len(entries)],
                        SortCentroids(SubSeq(entries, 1, Len(entries) - 1)))

\* _build_territory_centroids
build_territory_centroids(own) ==
    SortCentroids(TeamCentroids(own, TeamList[1]) \o TeamCentroids(own, TeamList[2])
                  \o TeamCentroids(own, TeamList[3]))

\* A current snapshot: an owner for each region, "" for a region without one.
CurrentSnapshots == [Regions -> Teams \cup {""}]

\* lines 66-70: owner_counts, as the owners in the order they are first met
\* and the number of counties of each.
RECURSIVE OwnersMet(_, _)
OwnersMet(region_counties, current) ==
    IF region_counties = <<>> THEN <<>>
    ELSE LET before == OwnersMet(SubSeq(region_counties, 1, Len(region_counties) - 1),
                                 current)
             current_owner == current[region_counties[Len(region_counties)]]
         IN  IF current_owner = "" \/ \E i \in 1..Len(before) : before[i] = current_owner
             THEN before
             ELSE Append(before, current_owner)

OwnerCount(region_counties, current, owner) ==
    Cardinality({ i \in 1..Len(region_counties) : current[region_counties[i]] = owner })

\* line 77: max(owner_counts.items(), key=count), the first of the greatest.
ControllingTeam(region_counties, current) ==
    LET met == OwnersMet(region_counties, current)
        best == CHOOSE i \in 1..Len(met) :
                    /\ \A j \in 1..Len(met) :
                         OwnerCount(region_counties, current, met[j])
                           <= OwnerCount(region_counties, current, met[i])
                    /\ \A j \in 1..(i - 1) :
                         OwnerCount(region_counties, current, met[j])
                           < OwnerCount(region_counties, current, met[i])
    IN  met[best]

\* lines 51-61: whatever the region tag, region_counties is the whole list of
\* the baseline team's counties.
RegionCounties(baseline_counties, region_tag) == baseline_counties

\* line 91 with the number of counties held now by the owner of the first
TotalCountiesOfFirstOwner(region_counties, current) ==
    Cardinality({ i \in 1..Len(region_counties) :
                    current[region_counties[i]] = current[region_counties[1]] })

\* line 91: len(region_counties)
TotalCounties(region_counties, current) == Len(region_counties)

\* The marker of one centroid, or none (lines 47-48, 63-64 and 73-74).
Marker(baseline, current, centroid) ==
    LET baseline_counties == CountiesOf(baseline, centroid.teamId)
        region_counties == RegionCounties(baseline_counties, centroid.region)
    IN  IF baseline_counties = <<>> \/ region_counties = <<>>
           \/ OwnersMet(region_counties, current) = <<>>
        THEN <<>>
        ELSE << [ territoryId |-> << centroid.teamId,
                                     IF centroid.region = None THEN "main"
                                     ELSE centroid.region[1] >>,
                  baselineTeamId |-> centroid.teamId,
                  latitude |-> centroid.latitude,
                  region |-> centroid.region,
                  currentOwnerId |-> ControllingTeam(region_counties, current),
                  countiesOwned |-> OwnerCount(region_counties, current,
                                               ControllingTeam(region_counties, current)),
                  totalCounties |-> TotalCounties(region_counties, current),
                  areaSqMi |-> centroid.areaSqMi ] >>

\* calculate_territory_logos
RECURSIVE calculate_territory_logos(_, _, _)
calculate_territory_logos(baseline, current, centroids) ==
    IF centroids = <<>> THEN <<>>
    ELSE Marker(baseline, current, Head(centroids))
         \o calculate_territory_logos(baseline, current, Tail(centroids))

\* The centroids of the baseline are computed and kept
\* (territory-centroids.json).
BuildCentroids ==
    /\ pc = "main"
    /\ baseline_centroids' = Some(build_territory_centroids(ownership_file))
    /\ pc' = "centroids"
    /\ UNCHANGED << ownership, key_order, team_to_fips, dry_run, timeline, week,
                    raw_games, week_files, weekly_summaries, season_weeks,
                    new_transfers, snapshots, index_file, transfers_file,
                    existing_transfers, ownership_file, snapshot_keys, week_paths,
                    features, setup_ownership, current_ownership, logos >>
    /\ UNCHANGED weekVars
    /\ UNCHANGED boardVars

\* calculate_territory_logos is called with the baseline, a current snapshot
\* and the baseline's centroids.
CalculateLogos ==
    /\ pc = "centroids"
    /\ \E current \in CurrentSnapshots :
         /\ current_ownership' = Some(current)
         /\ logos' = Some(calculate_territory_logos(ownership_file, current,
                                                    baseline_centroids[1]))
    /\ pc' = "logos"
    /\ UNCHANGED << ownership, key_order, team_to_fips, dry_run, timeline, week,
                    raw_games, week_files, weekly_summaries, season_weeks,
                    new_transfers, snapshots, index_file, transfers_file,
                    existing_transfers, ownership_file, snapshot_keys, week_paths,
                    features, setup_ownership, baseline_centroids >>
    /\ UNCHANGED weekVars
    /\ UNCHANGED boardVars

InitLogos == \E baseline \in Baselines : InitMain(baseline, FALSE, 0)

NextLogos ==
    \/ BuildCentroids
    \/ CalculateLogos

\* The markers of a baseline under any current snapshot.
SpecLogos == InitLogos /\ [][NextLogos]_vars

\* The regions of a marker's own cluster: the baseline team's regions in
\* Alaska for an 'alaska' marker, its other regions for a 'mainland' marker.
OwnCluster(marker) ==
    { r \in Regions :
        /\ ownership_file[r] = marker.baselineTeamId
        /\ (marker.region = Some("alaska")) <=> (CountyState[r] = "02") }

\* The number of regions of a set a team owns in the current snapshot.
Tally(S, team_id) == Cardinality({ r \in S : current_ownership[1][r] = team_id })

\* C23: every marker shows a team whose tally over the regions of the marker's
\* own week-0 cluster is maximal, with that tally as countiesOwned and the
\* size of the cluster as totalCounties.
C23_OwnClusterPlurality ==
    pc = "logos" =>
        \A i \in 1..Len(logos[1]) :
            LET marker == logos[1][i]
            IN  /\ \A t \in Teams :
                     Tally(OwnCluster(marker), t)
                       <= Tally(OwnCluster(marker), marker.currentOwnerId)
                /\ marker.countiesOwned = Tally(OwnCluster(marker), marker.currentOwnerId)
                /\ marker.totalCounties = Cardinality(OwnCluster(marker))

\* The fields of the markers that belong to the map: everything but the
\* controlling team's fields.
FixedFields(markers) ==
    [ i \in 1..Len(markers) |->
        [ territoryId |-> markers[i].territoryId,
          baselineTeamId |-> markers[i].baselineTeamId,
          latitude |-> markers[i].latitude,
          region |-> markers[i].region,
          totalCounties |-> markers[i].totalCounties,
          areaSqMi |-> markers[i].areaSqMi ] ]

\* Whether a snapshot gives an owner to every region.
AllOwned(current) == \A r \in Regions : current[r] # ""

\* C24: the markers and their territoryId, baseline team, position and
\* totalCounties depend only on the baseline and its centroids: for a current
\* snapshot that gives every region an owner, any other such snapshot yields
\* the same markers up to the controlling team's fields.
C24_MarkersFixed ==
    (pc = "logos" /\ AllOwned(current_ownership[1])) =>
        \A other \in CurrentSnapshots :
            AllOwned(other) =>
                FixedFields(calculate_territory_logos(ownership_file, other,
                                                      baseline_centroids[1]))
                  = FixedFields(logos[1])

\* A baseline with two teams whose regions have all passed to other teams:
\* the markers are still there, each with another controlling team.
C24_Witness ==
    /\ pc = "logos"
    /\ AllOwned(current_ownership[1])
    /\ Len(logos[1]) >= 2
    /\ \A i \in 1..Len(logos[1]) :
         logos[1][i].currentOwnerId # logos[1][i].baselineTeamId

\* ---------------------------------------------------------------------------
\* The baseline (setup.py, lib/territory.py)
\* ---------------------------------------------------------------------------

\* The rings of latitudes a county geometry of the model has: no vertex, one
\* vertex or two.
Rings == { <<>>, << 10 >>, << 10, 20 >>, << 24, 26 >> }

\* STATE of a feature: Georgia, Alaska ('02') or Puerto Rico ('72').
FeatureStates == { "13", "02", "72" }

\* The features of a us-counties.geojson: the three regions in file order,
\* each with a state and a geometry.
FeatureLists ==
    { [ i \in 1..Len(BaselineKeys) |->
          [ id |-> BaselineKeys[i], state |-> states[i], ring |-> rings[i] ] ] :
        states \in [1..Len(BaselineKeys) -> FeatureStates],
        rings \in [1..Len(BaselineKeys) -> Rings] }

RECURSIVE SumOf(_)
SumOf(ring) == IF ring = <<>> THEN 0 ELSE Head(ring) + SumOf(Tail(ring))

\* calculate_centroid raises for a geometry without points (IndexError for an
\* empty ring, ValueError when no point is counted).
CentroidRaises(ring) == Len(ring) = 0

\* calculate_centroid: the mean of the vertices (the rings of the model have
\* an integer mean).
calculate_centroid(ring) == SumOf(ring) \div Len(ring)

\* calculate_distance between two points of one meridian, in degrees of
\* latitude.
calculate_distance(lat1, lat2) == IF lat1 < lat2 THEN lat2 - lat1 ELSE lat1 - lat2

\* lines 147-158: the loop over team_locations keeps the first team at the
\* shortest distance; shortest_distance starts at infinity (None here).
RECURSIVE NearestAmong(_, _)
NearestAmong(team_ids, centroid_lat) ==
    IF team_ids = <<>> THEN [ nearest_team |-> None, shortest_distance |-> None ]
    ELSE LET before == NearestAmong(SubSeq(team_ids, 1, Len(team_ids) - 1), centroid_lat)
             team_id == team_ids[Len(team_ids)]
             distance == calculate_distance(centroid_lat, TeamLat[team_id])
         IN  IF before.shortest_distance = None \/ distance < before.shortest_distance[1]
             THEN [ nearest_team |-> Some(team_id), shortest_distance |-> Some(distance) ]
             ELSE before

\* ownership[fips] = nearest_team on a dict kept as its items in order.
RECURSIVE Assign(_, _, _)
Assign(items, fips, team_id) ==
    IF items = <<>> THEN << [ fips |-> fips, team |-> team_id ] >>
    ELSE IF Head(items).fips = fips
    THEN << [ fips |-> fips, team |-> team_id ] >> \o Tail(items)
    ELSE << Head(items) >> \o Assign(Tail(items), fips, team_id)

\* The loop of create_ownership_file: Puerto Rico and Alaska are skipped, a
\* feature whose centroid raises is skipped by the except clause, every other
\* feature is assigned to the nearest team.
RECURSIVE AssignedOwnership(_)
AssignedOwnership(feature_list) ==
    IF feature_list = <<>> THEN <<>>
    ELSE LET before == AssignedOwnership(SubSeq(feature_list, 1, Len(feature_list) - 1))
             feature == feature_list[Len(feature_list)]
         IN  IF feature.state = "72" \/ feature.state = "02" THEN before
             ELSE IF CentroidRaises(feature.ring) THEN before
             ELSE Assign(before, feature.id,
                         NearestAmong(TeamList, calculate_centroid(feature.ring)).nearest_team[1])

\* create_ownership_file reads the features and saves ownership.json.
CreateOwnershipFile ==
    /\ pc = "main"
    /\ \E feature_list \in FeatureLists :
         /\ features' = feature_list
         /\ setup_ownership' = Some(AssignedOwnership(feature_list))
    /\ pc' = "setup"
    /\ UNCHANGED << ownership, key_order, team_to_fips, dry_run, timeline, week,
                    raw_games, week_files, weekly_summaries, season_weeks,
                    new_transfers, snapshots, index_file, transfers_file,
                    existing_transfers, ownership_file, snapshot_keys, week_paths,
                    baseline_centroids, current_ownership, logos >>
    /\ UNCHANGED weekVars
    /\ UNCHANGED boardVars

\* setup is run where the data files of an earlier setup exist.
InitSetup == \E baseline \in CanonicalBaselines : InitMain(baseline, FALSE, 0)

NextSetup == CreateOwnershipFile

SpecSetup == InitSetup /\ [][NextSetup]_vars

\* The entries of the written snapshot for a region.
EntriesFor(fips) ==
    { i \in 1..Len(setup_ownership[1]) : setup_ownership[1][i].fips = fips }

\* Whether a team is the first team of the dataset at minimal distance from a
\* point.
FirstNearest(team_id, lat) ==
    /\ \A t \in Teams :
         calculate_distance(lat, TeamLat[team_id]) <= calculate_distance(lat, TeamLat[t])
    /\ \A t \in Teams :
         TeamNo[t] < TeamNo[team_id] =>
             calculate_distance(lat, TeamLat[team_id]) < calculate_distance(lat, TeamLat[t])

\* C25: the baseline snapshot contains every input region exactly once, each
\* owned by the first team of the dataset at minimal distance from the
\* region's centroid (for features that all have a geometry with vertices).
C25_BaselineCompleteNearest ==
    (pc = "setup" /\ \A i \in 1..Len(features) : features[i].ring # <<>>) =>
        \A i \in 1..Len(features) :
            /\ Cardinality(EntriesFor(features[i].id)) = 1
            /\ \A j \in EntriesFor(features[i].id) :
                 FirstNearest(setup_ownership[1][j].team,
                              calculate_centroid(features[i].ring))

\* C26: a region without vertices makes baseline building abort: no ownership
\* snapshot is persisted when a feature's geometry is empty.
C26_DegenerateFatal ==
    (pc = "setup" /\ \E i \in 1..Len(features) : features[i].ring = <<>>) =>
        setup_ownership = None

\* C27: a game without winner and loser ids that has both team ids and two
\* different scores gives a result whose winner is the team with the higher
\* score and whose loser is the other team, a score of 0 included.
C27_WinnerFromScores ==
    gi >= 1 =>
        LET game == games[gi]
            hs == FirstPresent(game.home_score, game.homeScore)
            as == FirstPresent(game.away_score, game.awayScore)
            ht == FirstPresent(game.home_team_id, game.homeTeamId)
            at == FirstPresent(game.away_team_id, game.awayTeamId)
        IN  (/\ NamedIds(game, {"winner_id", "winnerId", "winner"}) = {}
             /\ NamedIds(game, {"loser_id", "loserId", "loser"}) = {}
             /\ PassesStatusCheck(game)
             /\ hs # None /\ as # None /\ ht # None /\ at # None
             /\ hs # as /\ ht # at)
            => /\ result # None
               /\ result[1].winner = (IF hs[1] > as[1] THEN ht[1] ELSE at[1])
               /\ result[1].loser = (IF hs[1] > as[1] THEN at[1] ELSE ht[1])

\* C28: the persisted ledger holds at most one record for a week and game of
\* the season, whatever runs came before.
C28_LedgerUnique ==
    \A i, j \in 1..Len(transfers_file) :
        (/\ transfers_file[i].weekIndex = transfers_file[j].weekIndex
         /\ transfers_file[i].gameId = transfers_file[j].gameId) => i = j

\* ---------------------------------------------------------------------------
\* Leaderboards persisted for several seasons and weeks
\* ---------------------------------------------------------------------------

\* A payload, as far as persist_leaderboard is concerned: what it is for and
\* when it was generated.
Payloads ==
    [ season : Seasons, weekIndex : 0..MaxWeeks, generatedAt : Clock ]

\* persist_leaderboard is called for a season and week with a payload.
PersistLeaderboard ==
    /\ pc \in {"main", "persisted"}
    /\ \E new_payload \in Payloads :
         LET persisted == persist_leaderboard(lb_files, lb_index, new_payload.season,
                                              new_payload.weekIndex, new_payload)
         IN  /\ payload' = Some(new_payload)
             /\ lb_files' = persisted.files
             /\ lb_index' = persisted.index
             /\ lb_latest' = persisted.latest
    /\ pc' = "persisted"
    /\ UNCHANGED << ownership, key_order, team_to_fips, dry_run, timeline, week,
                    raw_games, week_files, weekly_summaries, season_weeks,
                    new_transfers, snapshots, index_file, transfers_file,
                    existing_transfers, ownership_file, snapshot_keys, week_paths,
                    county_stats >>
    /\ UNCHANGED weekVars
    /\ UNCHANGED mapVars

InitPersist == \E baseline \in CanonicalBaselines : InitMain(baseline, FALSE, 0)

NextPersist == PersistLeaderboard

\* Any sequence of persist_leaderboard calls.
SpecPersist == InitPersist /\ [][NextPersist]_vars

\* C29: after any sequence of persist_leaderboard calls the index holds one
\* entry for each persisted (season, weekIndex) and no other, 'latest' names
\* the greatest of them, and latest.json holds the payload most recently
\* persisted for that week (the content of its file).
C29_LatestConsistent ==
    pc = "persisted" =>
        LET weeks == IndexedWeeks(lb_index[1].seasons)
            latest == lb_index[1].latest
        IN  /\ \A i, j \in 1..Len(weeks) : weeks[i] = weeks[j] => i = j
            /\ { weeks[i] : i \in 1..Len(weeks) } = DOMAIN lb_files
            /\ latest \in DOMAIN lb_files
            /\ \A slot \in DOMAIN lb_files : ~TupleGreater(slot, latest)
            /\ lb_latest = Some(lb_files[latest])

\* Both seasons are in the index and the last call was for a week that is
\* not the latest, so that latest.json was copied from the latest week's file.
C29_Witness ==
    /\ pc = "persisted"
    /\ Len(lb_index[1].seasons) = 2
    /\ << payload[1].season, payload[1].weekIndex >> # lb_index[1].latest
    /\ lb_files[<< payload[1].season, payload[1].weekIndex >>].generatedAt = 2
    /\ lb_latest # payload

\* The numbers of games applied and of regions transferred by a feed, from
\* the ownership it starts from.
RECURSIVE FeedTotals(_, _)
FeedTotals(own, feed) ==
    IF feed = <<>> THEN << 0, 0 >>
    ELSE LET res == process_game_result(Head(feed), own, NoIndex)
             rest == FeedTotals(AfterGame(own, Head(feed)), Tail(feed))
         IN  IF res = None THEN rest
             ELSE << rest[1] + 1, rest[2] + res[1].transfer_count >>

\* The same for the weeks 1..n, from the baseline and the weekly files.
RECURSIVE WeeksTotals(_)
WeeksTotals(n) ==
    IF n = 0 THEN << 0, 0 >>
    ELSE IF week_files[n] = None THEN WeeksTotals(n - 1)
    ELSE LET before == WeeksTotals(n - 1)
             this == FeedTotals(AfterWeeks(n - 1), week_files[n][1])
         IN  << before[1] + this[1], before[2] + this[2] >>

\* main's totals over the weekly summaries (lines 242-243).
RECURSIVE ReportedTotals(_)
ReportedTotals(summaries) ==
    IF summaries = <<>> THEN << 0, 0 >>
    ELSE LET rest == ReportedTotals(Tail(summaries))
         IN  << rest[1] + Head(summaries).gamesProcessed,
                rest[2] + Head(summaries).countiesTransferred >>

\* C30: a dry run writes no weekly snapshot, no ownership index and no ledger,
\* while the ownership in memory after each week and the totals of processed
\* games and transferred regions are what the baseline and the weekly files
\* determine, with or without the flag.
C30_DryRunWritesNothing ==
    /\ dry_run =>
         /\ snapshots = <<>>
         /\ snapshot_keys = <<>>
         /\ index_file = None
         /\ transfers_file = existing_transfers
    /\ pc \in {"main", "done"} =>
         /\ ownership = AfterWeeks(week)
         /\ ReportedTotals(weekly_summaries) = WeeksTotals(week)

\* A dry run that found a ledger, applied two weeks and moved regions.
C30_Witness ==
    /\ dry_run
    /\ pc = "done"
    /\ week = 2
    /\ existing_transfers # <<>>
    /\ ReportedTotals(weekly_summaries)[2] >= 2
    /\ ownership # ownership_file

====
